---- MODULE Spec2Model ----
(***************************************************************************)
(* ZotWatch abstract-enrichment core: the two SQLite caches                *)
(* (MetadataCache, EmbeddingCache), the BrowserPool page fetcher and the   *)
(* AbstractEnricher coordinator, as state machines.                        *)
(***************************************************************************)
EXTENDS Integers, Sequences, FiniteSets, TLC

(***************************************************************************)
(* Bounds of the model.                                                    *)
(***************************************************************************)
\* the UTC clock runs from StartTime to MaxTime ticks
MaxTime == 4
\* longest list given to put_batch / get_batch
MaxBatch == 2
\* longest candidate list given to enrich
MaxCands == 2
MaxUrls == 2
MaxRuns == 2
\* longest list of fetched pages given to the extraction chain
MaxPages == 2
\* largest max_retries a client is configured with
MaxRetries == 4
\* browsers one process launches
MaxLaunches == 2

(***************************************************************************)
(* Values.                                                                 *)
(***************************************************************************)
\* Python None / SQL NULL
NULL == "NULL"

\* the empty dict
EmptyDict == [k \in {} |-> NULL]

\* clock ticks per calendar day (a tick is half a day)
TicksPerDay == 2
\* the clock starts on day 1 so that local times stay non-negative
StartTime == 2
\* offsets of the process's local time zone from UTC, in ticks
TzOffsets == {-1, 0, 1}

\* code points of the characters that separate date and time
OrdT == 84
OrdSpace == 32

\* DOIs as strings of characters; the keys are "da" and "db"
DOIs == { <<"d", "a">>, <<"D", "A">>, <<"d", "b">> }
Abstracts == {"abs1", "abs2"}
MetaSources == {"semantic_scholar", "llm_scraper"}
\* ttl_days arguments exercised
TtlDays == {0, 1}

ContentHashes == {"h1", "h2"}
Models == {"m1", "m2"}
Embeddings == {"e1", "e2"}
SourceTypes == {"profile", "candidate"}

VARIABLES
    now,      \* UTC wall clock, in ticks
    tz,       \* local time zone offset of the process, in ticks
    inst,     \* which cache object this behaviour exercises: "meta" or "emb"
    meta,     \* rows of table paper_metadata
    emb,      \* rows of table embeddings
    res,      \* the last cache call: its arguments, when it ran, what it returned
    ecfg,     \* the enricher's configuration (settings.sources.semantic_scholar, llm)
    cands,    \* the candidate list given to enrich
    epc,      \* where enrich is
    erun,     \* the locals of enrich
    elog,     \* the requests enrich has issued and the keys cached at its lookup
    eout,     \* how enrich ended, and the stats it returned
    lock,     \* holder of the cache's _write_lock, or "free"
    lpc,      \* per thread: where its cache call is
    lop,      \* per thread: the mutating method it calls
    pending,  \* threads whose statement is executed but not yet committed
    pcfg,     \* BrowserPool(max_concurrent, max_retries)
    urls,     \* the list given to fetch_pages
    fpc,      \* where fetch_pages is
    task,     \* per position of urls: the fetch task
    gathered, \* per position of urls: what asyncio.gather collected
    final,    \* final_results
    sem,      \* value of _semaphore; NoSemaphore before it is created
    browser,  \* _browser and the engine instances launched so far
    xcfg,     \* AbstractScraper(llm, use_llm_fallback, max_html_chars)
    xpages,   \* the fetched pages _fetch_batch_async extracts from
    xpc,      \* where the extraction of the current page is
    xi,       \* position of the current page in xpages
    xres,     \* per page: what _extract_abstract returned
    xlog,     \* the extractor calls made so far: page, tier, prompt, result
    hcfg,     \* the HTTP client: its class, default_model, max_retries, backoff_factor
    hreq,     \* the arguments of complete(): model, max_tokens, temperature
    hpc,      \* where complete() is
    hsent,    \* the requests posted so far, one per attempt
    hsleeps,  \* the delays slept between attempts
    tin,      \* a DOI and the two titles it has in two runs that are otherwise equal
    tpc,      \* where the two runs are
    teffA,    \* cache keys, URLs and prompts of the run with the first title
    teffB,    \* cache keys, URLs and prompts of the run with the second title
    bitems,   \* the items given to put_batch
    bpc,      \* where put_batch is, or how it ended
    bk,       \* the parameter tuples executemany has executed
    disk,     \* the committed rows of paper_metadata in the database file
    bbefore,  \* the committed rows when put_batch was called
    sinit,    \* StealthBrowser._initialized
    sbrowser, \* StealthBrowser._browser: a launched browser, or 0 for None
    splay,    \* the browsers of the driver StealthBrowser._playwright refers to
    slock,    \* holder of StealthBrowser._init_lock, or "free"
    sthr,     \* per thread: its call, where it is, its browser and its context
    slive,    \* the browsers launched and not closed
    snext     \* the number of browsers launched so far

cacheVars == <<now, tz, inst, meta, emb, res>>
enrichVars == <<ecfg, cands, epc, erun, elog, eout>>
lockVars == <<lock, lpc, lop, pending>>
poolVars == <<pcfg, urls, fpc, task, gathered, final, sem, browser>>
extractVars == <<xcfg, xpages, xpc, xi, xres, xlog>>
httpVars == <<hcfg, hreq, hpc, hsent, hsleeps>>
titleVars == <<tin, tpc, teffA, teffB>>
batchVars == <<bitems, bpc, bk, disk, bbefore>>
stealthVars == <<sinit, sbrowser, splay, slock, sthr, slive, snext>>
vars == <<cacheVars, enrichVars, lockVars, poolVars,
    extractVars, httpVars, titleVars, batchVars, stealthVars>>
\* what the sequential cache calls leave alone
notCacheVars == <<enrichVars, lockVars, poolVars, extractVars, httpVars, titleVars,
    batchVars,
    stealthVars>>
\* what enrich leaves alone
notEnrichVars == <<lockVars, poolVars, extractVars, httpVars, titleVars,
    batchVars,
    stealthVars>>
\* what the concurrent cache writers leave alone
notLockVars == <<now, tz, inst, res, enrichVars, poolVars, extractVars, httpVars,
    titleVars,
    batchVars,
    stealthVars>>
\* what the browser pool leaves alone
notPoolVars == <<cacheVars, enrichVars, lockVars, extractVars, httpVars, titleVars,
    batchVars,
    stealthVars>>
\* what the extraction chain leaves alone
notExtractVars == <<cacheVars, enrichVars, lockVars, poolVars, httpVars, titleVars,
    batchVars,
    stealthVars>>
\* what an HTTP client leaves alone
notHttpVars == <<cacheVars, enrichVars, lockVars, poolVars, extractVars, titleVars,
    batchVars,
    stealthVars>>
\* what the title comparison leaves alone
notTitleVars == <<cacheVars, enrichVars, lockVars, poolVars, extractVars, httpVars,
    batchVars,
    stealthVars>>
\* what the extraction loop over fetched pages leaves alone
notHandedVars == <<cacheVars, enrichVars, lockVars, xcfg, xpc, xi, xres, xlog,
    httpVars, titleVars,
    batchVars,
    stealthVars>>
\* what an interrupted put_batch leaves alone
notBatchVars == <<now, tz, inst, emb, enrichVars, lockVars, poolVars,
    extractVars, httpVars, titleVars,
    stealthVars>>
\* what the shared StealthBrowser leaves alone
notStealthVars == <<cacheVars, enrichVars, lockVars, poolVars,
    extractVars, httpVars, titleVars, batchVars>>

(***************************************************************************)
(* Strings and timestamps.                                                 *)
(***************************************************************************)
\* str.lower() on one character
LowerChar(c) ==
    CASE c = "A" -> "a"
      [] c = "B" -> "b"
      [] c = "D" -> "d"
      [] OTHER -> c

\* str.lower()
Lower(s) == [i \in DOMAIN s |-> LowerChar(s[i])]

\* a timestamp string 'YYYY-MM-DD<sep>HH:MM:SS' as <<date, ord(sep), time of day>>;
\* both fields are fixed-width, so byte order on the string is the
\* lexicographic order on the triple
Stamp(t, sep) == <<t \div TicksPerDay, sep, t % TicksPerDay>>

\* datetime.isoformat(): 'YYYY-MM-DDTHH:MM:SS.ffffff'
IsoFormat(t) == Stamp(t, OrdT)

\* strftime("%Y-%m-%d %H:%M:%S") of the UTC time
format_sqlite_datetime(t) == Stamp(t, OrdSpace)

\* SQLite datetime('now'): UTC, 'YYYY-MM-DD HH:MM:SS'
SqliteNow(t) == Stamp(t, OrdSpace)

\* SQLite text comparison a > b (binary collation, memcmp)
TextGreater(a, b) ==
    \E i \in 1..3 : /\ a[i] > b[i]
                    /\ \A j \in 1..(i - 1) : a[j] = b[j]

\* datetime.now(): naive local time
LocalNow(t, off) == t + off

\* utc_now()
utc_now(t) == t

\* timedelta(days=d)
Days(d) == d * TicksPerDay

\* SQL NULL in a timestamp column
NullStamp == <<>>

\* WHERE (expires_at IS NULL OR expires_at > datetime('now'))
NotExpired(expires, t) ==
    \/ expires = NullStamp
    \/ TextGreater(expires, SqliteNow(t))

\* WHERE expires_at IS NOT NULL AND expires_at <= datetime('now')
IsExpiredRow(expires, t) ==
    /\ expires # NullStamp
    /\ ~TextGreater(expires, SqliteNow(t))


(***************************************************************************)
(* SQL helpers.                                                            *)
(***************************************************************************)
\* the elements of a list
Elems(s) == {s[i] : i \in DOMAIN s}

\* lists of length 0..n of distinct elements of S (a repeated element adds
\* nothing to a batch read or a batch upsert)
ListsUpTo(S, n) ==
    UNION {{l \in [1..k -> S] : \A i, j \in 1..k : l[i] = l[j] => i = j} : k \in 0..n}

(***************************************************************************)
(* MetadataCache (table paper_metadata, PRIMARY KEY doi).                  *)
(* Columns title, authors_json, citation_count and created_at are written  *)
(* but never read back by any method and are left out.                     *)
(***************************************************************************)
MetaPK(r) == r.doi

MetaRow(doi, abstract, source, expires) ==
    [doi |-> doi, abstract |-> abstract, source |-> source, expires |-> expires]

\* a plain INSERT OR IGNORE: the first writer would win
MetaInsertOrIgnore(table, row) ==
    IF \E r \in table : MetaPK(r) = MetaPK(row) THEN table ELSE table \cup {row}

\* INSERT OR REPLACE INTO paper_metadata: a row with the same primary key
\* is deleted first
MetaInsertOrReplace(table, row) ==
    {r \in table : MetaPK(r) # MetaPK(row)} \cup {row}

\* executemany: the INSERT OR REPLACE once per parameter tuple, in list order
RECURSIVE MetaExecuteMany(_, _)
MetaExecuteMany(table, rows) ==
    IF rows = <<>> THEN table
    ELSE MetaExecuteMany(MetaInsertOrReplace(table, Head(rows)), Tail(rows))

\* expires_at = (datetime.now() + timedelta(days=ttl_days)).isoformat()
MetaExpiresAt(t, off, ttl_days) == IsoFormat(LocalNow(t, off) + Days(ttl_days))

\* MetadataCache.get_abstract
MetaGetAbstract(table, doi, t) ==
    LET rows == {r \in table : r.doi = Lower(doi) /\ NotExpired(r.expires, t)}
    IN  IF rows = {} THEN NULL ELSE (CHOOSE r \in rows : TRUE).abstract

\* doi_map = {d.lower(): d for d in dois}: the last original spelling wins
DoiMap(dois) ==
    [k \in {Lower(d) : d \in Elems(dois)} |->
        LET last == CHOOSE i \in DOMAIN dois :
                        /\ Lower(dois[i]) = k
                        /\ \A j \in DOMAIN dois : Lower(dois[j]) = k => j <= i
        IN  dois[last]]

\* doi_map.get(key, key)
DoiMapGet(dois, key) ==
    IF key \in DOMAIN DoiMap(dois) THEN DoiMap(dois)[key] ELSE key

\* MetadataCache.get_batch: a dict, as a function on its keys
MetaGetBatch(table, dois, t) ==
    LET normalized == {Lower(d) : d \in Elems(dois)}
        rows == IF dois = <<>> THEN {}
                ELSE {r \in table : /\ r.doi \in normalized
                                     /\ r.abstract # NULL
                                     /\ NotExpired(r.expires, t)}
        keys == {DoiMapGet(dois, r.doi) : r \in rows}
    IN  [k \in keys |-> (CHOOSE r \in rows : DoiMapGet(dois, r.doi) = k).abstract]

\* put that keys the row by the DOI as given
MetaPutTableAsGiven(table, doi, abstract, source, ttl_days, t, off) ==
    MetaInsertOrReplace(table,
                        MetaRow(doi, abstract, source, MetaExpiresAt(t, off, ttl_days)))

\* MetadataCache.put: the table after the call
MetaPutTable(table, doi, abstract, source, ttl_days, t, off) ==
    MetaInsertOrReplace(table,
                        MetaRow(Lower(doi), abstract, source, MetaExpiresAt(t, off, ttl_days)))

\* MetadataCache.put_batch: the table after the call
MetaPutBatchTable(table, items, source, ttl_days, t, off) ==
    IF items = <<>> THEN table
    ELSE MetaExecuteMany(table,
                         [i \in DOMAIN items |->
                             MetaRow(Lower(items[i][1]), items[i][2], source,
                                     MetaExpiresAt(t, off, ttl_days))])

\* MetadataCache.cleanup_expired: the rows it deletes
MetaExpiredRows(table, t) == {r \in table : IsExpiredRow(r.expires, t)}

\* MetadataCache.count
MetaCountOf(table, source) ==
    IF source # NULL THEN Cardinality({r \in table : r.source = source})
    ELSE Cardinality(table)

(***************************************************************************)
(* The record of the last call.  For an upsert, replaced is the value the  *)
(* key's row held before (written by an earlier put), or "no row".         *)
(***************************************************************************)
NoCall == [op |-> "none"]
ReadCall(op, arg, val) == [op |-> op, arg |-> arg, val |-> val]
WriteCall(op, key, value, source, expires, replaced) ==
    [op |-> op, key |-> key, value |-> value, source |-> source, expires |-> expires,
     replaced |-> replaced]
DeleteCall(op, arg, val) == [op |-> op, arg |-> arg, val |-> val]

\* (doi, abstract) tuples given to put_batch
BatchItems == { << <<"d", "a">>, "abs1" >>, << <<"D", "A">>, "abs2" >>, << <<"d", "b">>, "abs1" >> }

\* (doi, abstract, source) arguments given to put: both spellings of one
\* key with different values and source tags, None, and a second key
PutArgs == { << <<"d", "a">>, "abs1", "semantic_scholar" >>,
             << <<"D", "A">>, "abs2", "llm_scraper" >>,
             << <<"D", "A">>, NULL, "llm_scraper" >>,
             << <<"d", "b">>, "abs1", "llm_scraper" >> }

\* the value stored under a key, or "no row"
MetaStored(table, key) ==
    IF \E r \in table : r.doi = key
    THEN (CHOOSE r \in table : r.doi = key).abstract
    ELSE "no row"

(***************************************************************************)
(* MetadataCache operations, called one after the other.                   *)
(***************************************************************************)
MetaPut(doi, abstract, source, ttl_days) ==
    /\ inst = "meta"
    /\ meta' = MetaPutTable(meta, doi, abstract, source, ttl_days, now, tz)
    /\ res' = WriteCall("put", doi, abstract, source, MetaExpiresAt(now, tz, ttl_days),
                        MetaStored(meta, Lower(doi)))
    /\ UNCHANGED <<now, tz, inst, emb>>
    /\ UNCHANGED notCacheVars

\* the record describes the last tuple of the batch
MetaPutBatch(items, source, ttl_days) ==
    /\ inst = "meta"
    /\ meta' = MetaPutBatchTable(meta, items, source, ttl_days, now, tz)
    /\ res' = IF items = <<>> THEN ReadCall("put_batch", items, NULL)
              ELSE LET n == Len(items)
                       before == MetaPutBatchTable(meta, SubSeq(items, 1, n - 1),
                                                   source, ttl_days, now, tz)
                   IN  WriteCall("put_batch", items[n][1], items[n][2], source,
                                 MetaExpiresAt(now, tz, ttl_days),
                                 MetaStored(before, Lower(items[n][1])))
    /\ UNCHANGED <<now, tz, inst, emb>>
    /\ UNCHANGED notCacheVars

MetaGetAbstractCall(doi) ==
    /\ inst = "meta"
    /\ res' = ReadCall("get_abstract", doi, MetaGetAbstract(meta, doi, now))
    /\ UNCHANGED <<now, tz, inst, meta, emb>>
    /\ UNCHANGED notCacheVars

MetaGetBatchCall(dois) ==
    /\ inst = "meta"
    /\ res' = ReadCall("get_batch", dois, MetaGetBatch(meta, dois, now))
    /\ UNCHANGED <<now, tz, inst, meta, emb>>
    /\ UNCHANGED notCacheVars

MetaCleanupExpired ==
    /\ inst = "meta"
    /\ meta' = meta \ MetaExpiredRows(meta, now)
    /\ res' = DeleteCall("cleanup_expired", NULL, Cardinality(MetaExpiredRows(meta, now)))
    /\ UNCHANGED <<now, tz, inst, emb>>
    /\ UNCHANGED notCacheVars

MetaCount(source) ==
    /\ inst = "meta"
    /\ res' = ReadCall("count", source, MetaCountOf(meta, source))
    /\ UNCHANGED <<now, tz, inst, meta, emb>>
    /\ UNCHANGED notCacheVars

\* time passes between two calls
Tick ==
    /\ now < MaxTime
    /\ now' = now + 1
    /\ UNCHANGED <<tz, inst, meta, emb, res>>
    /\ UNCHANGED notCacheVars

(***************************************************************************)
(* EmbeddingCache (table embeddings, PRIMARY KEY (content_hash, model)).   *)
(* Columns source_id and created_at are written but never read back and    *)
(* are left out.                                                           *)
(***************************************************************************)
EmbPK(r) == <<r.content_hash, r.model>>

EmbRow(content_hash, model, embedding, source_type, expires) ==
    [content_hash |-> content_hash, model |-> model, embedding |-> embedding,
     source_type |-> source_type, expires |-> expires]

\* expires_at = None, or format_sqlite_datetime(utc_now() + timedelta(days=ttl_days))
EmbExpiresAt(t, ttl_days) ==
    IF ttl_days = <<>> THEN NullStamp
    ELSE format_sqlite_datetime(utc_now(t) + Days(ttl_days[1]))

\* INSERT OR REPLACE INTO embeddings
EmbInsertOrReplace(table, row) ==
    {r \in table : EmbPK(r) # EmbPK(row)} \cup {row}

RECURSIVE EmbExecuteMany(_, _)
EmbExecuteMany(table, rows) ==
    IF rows = <<>> THEN table
    ELSE EmbExecuteMany(EmbInsertOrReplace(table, Head(rows)), Tail(rows))

\* EmbeddingCache.get
EmbGet(table, content_hash, model, t) ==
    LET rows == {r \in table : /\ r.content_hash = content_hash
                                /\ r.model = model
                                /\ NotExpired(r.expires, t)}
    IN  IF rows = {} THEN NULL ELSE (CHOOSE r \in rows : TRUE).embedding

\* EmbeddingCache.get_batch: a dict, as a function on its keys
EmbGetBatch(table, content_hashes, model, t) ==
    LET rows == IF content_hashes = <<>> THEN {}
                ELSE {r \in table : /\ r.content_hash \in Elems(content_hashes)
                                     /\ r.model = model
                                     /\ NotExpired(r.expires, t)}
    IN  [h \in {r.content_hash : r \in rows} |->
            (CHOOSE r \in rows : r.content_hash = h).embedding]

\* EmbeddingCache.put: the table after the call
EmbPutTable(table, content_hash, embedding, model, source_type, ttl_days, t) ==
    EmbInsertOrReplace(table,
                       EmbRow(content_hash, model, embedding, source_type,
                              EmbExpiresAt(t, ttl_days)))

Min(a, b) == IF a < b THEN a ELSE b

\* zip(items, source_ids): as long as the shorter of the two lists
ZipLen(items, source_ids) ==
    IF source_ids = NULL THEN Len(items) ELSE Min(Len(items), Len(source_ids))

\* EmbeddingCache.put_batch: the table after the call
EmbPutBatchTable(table, items, model, source_type, source_ids, ttl_days, t) ==
    IF items = <<>> THEN table
    ELSE EmbExecuteMany(table,
                        [i \in 1..ZipLen(items, source_ids) |->
                            EmbRow(items[i][1], model, items[i][2], source_type,
                                   EmbExpiresAt(t, ttl_days))])

\* the value stored under a key, or "no row"
EmbStored(table, content_hash, model) ==
    IF \E r \in table : EmbPK(r) = <<content_hash, model>>
    THEN (CHOOSE r \in table : EmbPK(r) = <<content_hash, model>>).embedding
    ELSE "no row"

\* (content_hash, model, embedding, source_type) arguments given to put
EmbPutArgs == { <<"h1", "m1", "e1", "profile">>, <<"h1", "m1", "e2", "candidate">>,
                <<"h1", "m2", "e1", "profile">>, <<"h2", "m1", "e1", "candidate">> }

\* (content_hash, embedding) tuples given to put_batch
EmbBatchItems == { <<"h1", "e2">>, <<"h2", "e1">> }

\* ttl_days arguments given to the embedding cache: None is <<>>, an int d is <<d>>
EmbTtlDays == {<<>>, <<0>>, <<1>>}

(***************************************************************************)
(* EmbeddingCache operations, called one after the other.                  *)
(***************************************************************************)
EmbPut(content_hash, embedding, model, source_type, ttl_days) ==
    /\ inst = "emb"
    /\ emb' = EmbPutTable(emb, content_hash, embedding, model, source_type, ttl_days, now)
    /\ res' = WriteCall("put", <<content_hash, model>>, embedding, source_type,
                        EmbExpiresAt(now, ttl_days), EmbStored(emb, content_hash, model))
    /\ UNCHANGED <<now, tz, inst, meta>>
    /\ UNCHANGED notCacheVars

\* the record describes the last tuple written
EmbPutBatch(items, model, source_type, source_ids, ttl_days) ==
    /\ inst = "emb"
    /\ emb' = EmbPutBatchTable(emb, items, model, source_type, source_ids, ttl_days, now)
    /\ res' = LET n == ZipLen(items, source_ids)
              IN  IF n = 0 THEN ReadCall("put_batch", items, NULL)
                  ELSE LET before == EmbPutBatchTable(emb, SubSeq(items, 1, n - 1), model,
                                                      source_type, NULL, ttl_days, now)
                       IN  WriteCall("put_batch", <<items[n][1], model>>, items[n][2],
                                     source_type, EmbExpiresAt(now, ttl_days),
                                     EmbStored(before, items[n][1], model))
    /\ UNCHANGED <<now, tz, inst, meta>>
    /\ UNCHANGED notCacheVars

EmbGetCall(content_hash, model) ==
    /\ inst = "emb"
    /\ res' = ReadCall("get", <<content_hash, model>>, EmbGet(emb, content_hash, model, now))
    /\ UNCHANGED <<now, tz, inst, meta, emb>>
    /\ UNCHANGED notCacheVars

EmbGetBatchCall(content_hashes, model) ==
    /\ inst = "emb"
    /\ res' = ReadCall("get_batch", <<content_hashes, model>>,
                       EmbGetBatch(emb, content_hashes, model, now))
    /\ UNCHANGED <<now, tz, inst, meta, emb>>
    /\ UNCHANGED notCacheVars

\* a DELETE without its WHERE clause
EmbDeleteAll(table, model) == {}

\* DELETE FROM embeddings WHERE model = ?: the rows that remain
EmbDeleteModel(table, model) == {r \in table : r.model # model}

\* DELETE FROM embeddings WHERE source_type = ?: the rows that remain
EmbDeleteSource(table, source_type) == {r \in table : r.source_type # source_type}

\* cur.rowcount of a DELETE
RowCount(before, after) == Cardinality(before \ after)

\* SELECT COUNT(*) FROM embeddings WHERE 1=1 [AND source_type = ?] [AND model = ?]
EmbCountOf(table, source_type, model) ==
    Cardinality({r \in table : /\ source_type # NULL => r.source_type = source_type
                               /\ model # NULL => r.model = model})

EmbInvalidateModel(model) ==
    /\ inst = "emb"
    /\ emb' = EmbDeleteModel(emb, model)
    /\ res' = DeleteCall("invalidate_model", model, RowCount(emb, emb'))
    /\ UNCHANGED <<now, tz, inst, meta>>
    /\ UNCHANGED notCacheVars

EmbInvalidateSource(source_type) ==
    /\ inst = "emb"
    /\ emb' = EmbDeleteSource(emb, source_type)
    /\ res' = DeleteCall("invalidate_source", source_type, RowCount(emb, emb'))
    /\ UNCHANGED <<now, tz, inst, meta>>
    /\ UNCHANGED notCacheVars

EmbCount(source_type, model) ==
    /\ inst = "emb"
    /\ res' = ReadCall("count", <<source_type, model>>, EmbCountOf(emb, source_type, model))
    /\ UNCHANGED <<now, tz, inst, meta, emb>>
    /\ UNCHANGED notCacheVars

\* the enricher is not running
EnrichIdle ==
    /\ ecfg = [enabled |-> FALSE, scraper_enabled |-> FALSE, llm |-> FALSE, batch_size |-> 1]
    /\ cands = <<>>
    /\ epc = "idle"
    /\ erun = [todo |-> <<>>]
    /\ elog = [api_calls |-> <<>>, fetches |-> <<>>, hit_keys |-> {}, lookups |-> <<>>,
               run |-> 0, earlier |-> {}]
    /\ eout = [how |-> "running"]

\* no thread is inside a cache call
LockIdle ==
    /\ lock = "free"
    /\ lpc = [t \in {} |-> "idle"]
    /\ lop = [t \in {} |-> "none"]
    /\ pending = {}

\* no browser pool
PoolIdle ==
    /\ pcfg = [max_concurrent |-> 0, max_retries |-> 0]
    /\ urls = <<>>
    /\ fpc = "none"
    /\ task = <<>>
    /\ gathered = <<>>
    /\ final = <<>>
    /\ sem = 0
    /\ browser = [handle |-> 0, launched |-> 0]

\* no scraper
ExtractIdle ==
    /\ xcfg = [llm |-> FALSE, use_llm_fallback |-> FALSE, max_html_chars |-> 0]
    /\ xpages = <<>>
    /\ xpc = "none"
    /\ xi = 0
    /\ xres = <<>>
    /\ xlog = <<>>

\* no HTTP client
HttpIdle ==
    /\ hcfg = [class |-> "none"]
    /\ hreq = [model |-> <<>>]
    /\ hpc = "none"
    /\ hsent = <<>>
    /\ hsleeps = <<>>

\* no pair of runs is compared
TitleIdle ==
    /\ tin = [path |-> "none"]
    /\ tpc = "none"
    /\ teffA = <<>>
    /\ teffB = <<>>

\* no put_batch under interruption
BatchIdle ==
    /\ bitems = <<>>
    /\ bpc = "none"
    /\ bk = 0
    /\ disk = {}
    /\ bbefore = {}

\* no StealthBrowser caller
\* _playwright is None; launched browsers are numbered from 1
NoPlaywright == {0}

StealthIdle ==
    /\ sinit = FALSE
    /\ sbrowser = 0
    /\ splay = NoPlaywright
    /\ slock = "free"
    /\ sthr = [t \in {} |-> 0]
    /\ slive = {}
    /\ snext = 0

CacheInit ==
    /\ EnrichIdle
    /\ LockIdle
    /\ PoolIdle
    /\ ExtractIdle
    /\ HttpIdle
    /\ TitleIdle
    /\ BatchIdle
    /\ StealthIdle
    /\ now = StartTime
    /\ inst \in {"meta", "emb"}
    /\ tz \in (IF inst = "meta" THEN TzOffsets ELSE {0})
    /\ meta = {}
    /\ emb = {}
    /\ res = NoCall

CacheNext ==
    \/ \E a \in PutArgs, ttl_days \in TtlDays : MetaPut(a[1], a[2], a[3], ttl_days)
    \/ \E items \in ListsUpTo(BatchItems, MaxBatch), ttl_days \in TtlDays :
          MetaPutBatch(items, "semantic_scholar", ttl_days)
    \/ \E doi \in DOIs : MetaGetAbstractCall(doi)
    \/ \E dois \in ListsUpTo(DOIs, MaxBatch) : MetaGetBatchCall(dois)
    \/ MetaCleanupExpired
    \/ \E source \in MetaSources \cup {NULL} : MetaCount(source)
    \/ \E a \in EmbPutArgs, ttl_days \in EmbTtlDays :
          EmbPut(a[1], a[3], a[2], a[4], ttl_days)
    \/ \E items \in ListsUpTo(EmbBatchItems, MaxBatch), source_ids \in {NULL, <<"s1">>},
          ttl_days \in {<<>>, <<1>>} :
          EmbPutBatch(items, "m1", "candidate", source_ids, ttl_days)
    \/ \E content_hash \in ContentHashes, model \in Models : EmbGetCall(content_hash, model)
    \/ \E content_hashes \in ListsUpTo(ContentHashes, MaxBatch), model \in Models :
          EmbGetBatchCall(content_hashes, model)
    \/ \E model \in Models : EmbInvalidateModel(model)
    \/ \E source_type \in SourceTypes : EmbInvalidateSource(source_type)
    \/ \E source_type \in SourceTypes \cup {NULL}, model \in Models \cup {NULL} :
          EmbCount(source_type, model)
    \/ Tick

SpecCache == CacheInit /\ [][CacheNext]_vars


(***************************************************************************)
(* AbstractEnricher.enrich.  The metadata API client and the scraper are   *)
(* external: each call returns any of its possible outcomes.               *)
(***************************************************************************)
\* a candidate without DOI (doi None or "")
NoDoi == <<>>

Candidate(doi, abstract) == [doi |-> doi, abstract |-> abstract]

\* candidates enrich is given: one that has its abstract, two spellings of
\* one DOI, another DOI, and one without DOI
CandidatePool ==
    { Candidate(<<"d", "a">>, "orig"), Candidate(<<"D", "A">>, NULL),
      Candidate(<<"d", "a">>, NULL), Candidate(<<"d", "b">>, NULL),
      Candidate(NoDoi, NULL) }

\* Python truth of an Optional[str] abstract: neither None nor ""
Truthy(x) == x # NULL /\ x # ""

\* Python truth of an Optional[str] DOI
TruthyDoi(d) == d # NoDoi

\* ttl_days the enricher writes with (config.cache_ttl_days)
CacheTtlDays == 1

\* batch sizes configured (config.batch_size)
BatchSizes == {1, 2}

Configs ==
    [enabled : BOOLEAN, scraper_enabled : BOOLEAN, llm : BOOLEAN, batch_size : BatchSizes]

\* [x for x in list if Test(x)]
Filter(list, Test(_)) == SelectSeq(list, Test)

\* {**a, **b}
DictUpdate(a, b) ==
    [k \in DOMAIN a \cup DOMAIN b |-> IF k \in DOMAIN b THEN b[k] ELSE a[k]]

\* list[:n] and list[n:]
Take(list, n) == SubSeq(list, 1, Min(n, Len(list)))
Drop(list, n) == SubSeq(list, Min(n, Len(list)) + 1, Len(list))

\* dict.items(): the keys in some order
ItemsOrder(keys) ==
    CHOOSE l \in [1..Cardinality(keys) -> keys] : \A k \in keys : \E i \in DOMAIN l : l[i] = k

\* the three categories of lines 125-131
WithAbstract(cs) == Filter(cs, LAMBDA c : Truthy(c.abstract))
NeedsEnrichmentAnyDoi(cs) == Filter(cs, LAMBDA c : TruthyDoi(c.doi))
NeedsEnrichment(cs) == Filter(cs, LAMBDA c : ~Truthy(c.abstract) /\ TruthyDoi(c.doi))
NoDoiList(cs) == Filter(cs, LAMBDA c : ~Truthy(c.abstract) /\ ~TruthyDoi(c.doi))

\* the DOIs of every candidate, categorised or not
DoisOfAll(cs) == [i \in DOMAIN cs |-> cs[i].doi]

\* dois_to_check = [c.doi for c in needs_enrichment]
DoisToCheck(cs) == [i \in DOMAIN NeedsEnrichment(cs) |-> NeedsEnrichment(cs)[i].doi]

Stats(total, with_abstract, missing, skipped, hits, api, scraper, enriched, failed) ==
    [total_candidates |-> total, with_abstract |-> with_abstract,
     missing_abstracts |-> missing, skipped_no_doi |-> skipped, cache_hits |-> hits,
     api_fetched |-> api, scraper_fetched |-> scraper, enriched |-> enriched,
     failed |-> failed]

Running == [how |-> "running"]
Returned(stats) == [how |-> "returned", stats |-> stats]
Raised == [how |-> "raised"]

\* the locals of a running enrich
Locals(cached, uncached, api, scraper, todo, failed_dois) ==
    [cached_abstracts |-> cached, uncached_dois |-> uncached, api_abstracts |-> api,
     scraper_abstracts |-> scraper, todo |-> todo, failed_dois |-> failed_dois]

\* the log of a run: batches sent to the metadata API, DOIs given to
\* fetch_abstract, the keys that had an unexpired row with an abstract at the
\* lookup, the lists given to cache.get_batch; and the number of the run
\* with the DOIs whose abstract the run before it had obtained
Log(api_calls, fetches, hit_keys, lookups, run, earlier) ==
    [api_calls |-> api_calls, fetches |-> fetches, hit_keys |-> hit_keys,
     lookups |-> lookups, run |-> run, earlier |-> earlier]

EnabledAnyway(cfg) == FALSE

\* if not self.config.enabled
IsDisabled(cfg) == ~cfg.enabled

\* lines 172-179: what follows the metadata API tier
AfterApi(cfg, uncached, api) ==
    LET still_missing == Filter(uncached, LAMBDA d : d \notin DOMAIN api)
    IN  IF still_missing # <<>> /\ cfg.scraper_enabled /\ cfg.llm
        THEN [pc |-> "scrape1", todo |-> still_missing]
        ELSE [pc |-> "apply", todo |-> <<>>]

\* lines 97-179 up to the first network request: the early returns, the
\* categorisation and the one batch lookup
EnrichCall(read_fails) ==
    /\ epc = "start"
    /\ IF IsDisabled(ecfg)
       THEN /\ eout' = Returned(Stats(Len(cands), Len(Filter(cands, LAMBDA c : Truthy(c.abstract))),
                                      Len(cands) - Len(Filter(cands, LAMBDA c : Truthy(c.abstract))),
                                      0, 0, 0, 0, 0, 0))
            /\ epc' = "done"
            /\ UNCHANGED <<erun, elog>>
       ELSE IF NeedsEnrichment(cands) = <<>>
       THEN /\ eout' = Returned(Stats(Len(cands), Len(WithAbstract(cands)), 0,
                                      Len(NoDoiList(cands)), 0, 0, 0, 0, 0))
            /\ epc' = "done"
            /\ UNCHANGED <<erun, elog>>
       ELSE IF read_fails
       THEN /\ eout' = Raised
            /\ epc' = "done"
            /\ elog' = [elog EXCEPT !.lookups = Append(@, DoisToCheck(cands))]
            /\ UNCHANGED erun
       ELSE LET dois_to_check == DoisToCheck(cands)
                cached == MetaGetBatch(meta, dois_to_check, now)
                uncached == Filter(dois_to_check, LAMBDA d : d \notin DOMAIN cached)
                next == AfterApi(ecfg, uncached, EmptyDict)
            IN  /\ erun' = Locals(cached, uncached, EmptyDict, EmptyDict,
                                  IF uncached # <<>> THEN uncached ELSE next.todo, <<>>)
                /\ epc' = IF uncached # <<>> THEN "api" ELSE next.pc
                /\ elog' = Log(<<>>, <<>>,
                               {r.doi : r \in {x \in meta : /\ NotExpired(x.expires, now)
                                                            /\ x.abstract # NULL}},
                               Append(elog.lookups, dois_to_check), elog.run, elog.earlier)
                /\ UNCHANGED eout
    /\ UNCHANGED <<ecfg, cands, cacheVars>>
    /\ UNCHANGED notEnrichVars

CacheDeferred(table, items, t, off) == table

\* Cache immediately after each batch: self.cache.put_batch(...)
CacheBatchResults(table, items, t, off) ==
    MetaPutBatchTable(table, items, "semantic_scholar", CacheTtlDays, t, off)

\* one round of the loop of _fetch_abstracts: the client answers for the
\* DOIs in found, or raises; a non-empty answer is cached at once, and an
\* exception of that put_batch is caught by the same except clause
EnrichApiBatch(found, raises, put_fails) ==
    /\ epc = "api"
    /\ LET batch == Take(erun.todo, ecfg.batch_size)
           rest == Drop(erun.todo, ecfg.batch_size)
           batch_results == [d \in found |-> "api"]
           results == IF raises THEN erun.api_abstracts
                      ELSE DictUpdate(erun.api_abstracts, batch_results)
           items == [i \in 1..Cardinality(found) |->
                        <<ItemsOrder(found)[i], batch_results[ItemsOrder(found)[i]]>>]
           next == AfterApi(ecfg, erun.uncached_dois, results)
       IN  /\ found \subseteq Elems(batch)
           /\ raises => found = {}
           /\ put_fails => found # {}
           /\ meta' = IF raises \/ found = {} \/ put_fails THEN meta
                      ELSE CacheBatchResults(meta, items, now, tz)
           /\ erun' = [erun EXCEPT !.api_abstracts = results,
                                   !.todo = IF rest # <<>> THEN rest ELSE next.todo]
           /\ epc' = IF rest # <<>> THEN "api" ELSE next.pc
           /\ elog' = [elog EXCEPT !.api_calls = Append(@, batch)]
    /\ UNCHANGED <<ecfg, cands, eout, now, tz, inst, emb, res>>
    /\ UNCHANGED notEnrichVars

\* StealthBrowser.fetch_page(cls, url, timeout): the parameters a call may name
StealthFetchPageParams == {"url", "timeout"}

\* a call that names the timeout only
TimeoutKeywordOnly == {"timeout"}

\* fetch_abstract calls StealthBrowser.fetch_page(doi_url, timeout=...,
\* max_retries=...): the keywords of the call
FetchAbstractKeywords == {"timeout", "max_retries"}

\* a call naming a keyword the function does not have raises TypeError
CallBinds(keywords, params) == keywords \subseteq params

\* AbstractScraper.fetch_abstract: an abstract, None, or an exception.  The
\* page fetch swallows browser errors and the LLM extractor swallows its
\* own, so past the call an exception can only come from rule extraction.
FetchAbstractOutcomes ==
    IF CallBinds(FetchAbstractKeywords, StealthFetchPageParams)
    THEN {"abstract", "none", "raise"}
    ELSE {"raise"}

\* one round of the loops of _fetch_with_scraper (first pass, then the
\* retry pass): fetch_abstract returns an abstract or None, or raises; an
\* abstract is cached at once
EnrichScrape(outcome) ==
    /\ epc \in {"scrape1", "scrape2"}
    /\ LET doi == Head(erun.todo)
           rest == Tail(erun.todo)
           failed_dois == IF outcome = "none" /\ epc = "scrape1"
                          THEN Append(erun.failed_dois, doi)
                          ELSE erun.failed_dois
       IN  /\ elog' = [elog EXCEPT !.fetches = Append(@, doi)]
           /\ IF outcome = "raise"
              THEN /\ epc' = "done"
                   /\ eout' = Raised
                   /\ UNCHANGED <<erun, meta>>
              ELSE /\ meta' = IF outcome = "abstract"
                              THEN MetaPutTable(meta, doi, "scr", "llm_scraper",
                                                CacheTtlDays, now, tz)
                              ELSE meta
                   /\ erun' = [erun EXCEPT
                                 !.scraper_abstracts =
                                     IF outcome = "abstract"
                                     THEN DictUpdate(@, [d \in {doi} |-> "scr"])
                                     ELSE @,
                                 !.failed_dois = failed_dois,
                                 !.todo = IF rest # <<>> THEN rest
                                          ELSE IF epc = "scrape1" THEN failed_dois
                                          ELSE <<>>]
                   /\ epc' = IF rest # <<>> THEN epc
                             ELSE IF epc = "scrape1" /\ failed_dois # <<>> THEN "scrape2"
                             ELSE "apply"
                   /\ UNCHANGED eout
    /\ UNCHANGED <<ecfg, cands, now, tz, inst, emb, res>>
    /\ UNCHANGED notEnrichVars

\* all_abstracts = {**cached_abstracts, **api_abstracts, **scraper_abstracts}
AllAbstracts(run) ==
    DictUpdate(DictUpdate(run.cached_abstracts, run.api_abstracts), run.scraper_abstracts)

\* the candidate gets an abstract in step 4
IsEnriched(c, all) == ~Truthy(c.abstract) /\ TruthyDoi(c.doi) /\ c.doi \in DOMAIN all

\* lines 181-228: merge, apply, count, return
EnrichReturn ==
    /\ epc = "apply"
    /\ LET all == AllAbstracts(erun)
           enriched_count == Len(Filter(cands, LAMBDA c : IsEnriched(c, all)))
           needs == Len(NeedsEnrichment(cands))
       IN  /\ cands' = [i \in DOMAIN cands |->
                           IF IsEnriched(cands[i], all)
                           THEN [cands[i] EXCEPT !.abstract = all[cands[i].doi]]
                           ELSE cands[i]]
           /\ eout' = Returned(Stats(Len(cands), Len(WithAbstract(cands)), needs,
                                     Len(NoDoiList(cands)),
                                     Cardinality(DOMAIN erun.cached_abstracts),
                                     Cardinality(DOMAIN erun.api_abstracts),
                                     Cardinality(DOMAIN erun.scraper_abstracts),
                                     enriched_count, needs - enriched_count))
    /\ epc' = "done"
    /\ UNCHANGED <<ecfg, erun, elog, cacheVars>>
    /\ UNCHANGED notEnrichVars

\* enrich raised; the caller runs it again over the same candidates
EnrichRerun ==
    /\ epc = "done"
    /\ eout.how = "raised"
    /\ elog.run < MaxRuns
    /\ epc' = "start"
    /\ eout' = Running
    /\ erun' = Locals(EmptyDict, <<>>, EmptyDict, EmptyDict, <<>>, <<>>)
    /\ elog' = Log(<<>>, <<>>, {}, <<>>, elog.run + 1,
                   DOMAIN erun.api_abstracts \cup DOMAIN erun.scraper_abstracts)
    /\ UNCHANGED <<ecfg, cands, cacheVars>>
    /\ UNCHANGED notEnrichVars

\* plain lists of length 0..n over S
SeqsUpTo(S, n) == UNION {[1..k -> S] : k \in 0..n}

\* (doi, abstract) tuples cached by earlier runs
EarlierItems == { << <<"d", "a">>, "cached" >>, << <<"d", "b">>, "cached" >> }

\* the cache an enrich run finds: what a run long ago and a recent run
\* left in it, the old rows being expired by now
EarlierCaches ==
    { MetaPutBatchTable(
          MetaPutBatchTable({}, old, "semantic_scholar", CacheTtlDays,
                            StartTime - Days(CacheTtlDays) - TicksPerDay, 0),
          recent, "semantic_scholar", CacheTtlDays, StartTime, 0)
      : old \in ListsUpTo(EarlierItems, 2), recent \in ListsUpTo(EarlierItems, 2) }

EnrichInit ==
    /\ LockIdle
    /\ PoolIdle
    /\ ExtractIdle
    /\ HttpIdle
    /\ TitleIdle
    /\ BatchIdle
    /\ StealthIdle
    /\ now = StartTime
    /\ tz = 0
    /\ inst = "meta"
    /\ meta \in EarlierCaches
    /\ emb = {}
    /\ res = NoCall
    /\ ecfg \in Configs
    /\ cands \in SeqsUpTo(CandidatePool, MaxCands)
    /\ epc = "start"
    /\ erun = Locals(EmptyDict, <<>>, EmptyDict, EmptyDict, <<>>, <<>>)
    /\ elog = Log(<<>>, <<>>, {}, <<>>, 1, {})
    /\ eout = Running

EnrichNext ==
    \/ \E read_fails \in BOOLEAN : EnrichCall(read_fails)
    \/ \E found \in SUBSET DOIs, raises \in BOOLEAN, put_fails \in BOOLEAN :
           EnrichApiBatch(found, raises, put_fails)
    \/ \E outcome \in FetchAbstractOutcomes : EnrichScrape(outcome)
    \/ EnrichReturn
    \/ EnrichRerun

SpecEnrich == EnrichInit /\ [][EnrichNext]_vars

(***************************************************************************)
(* The caches under concurrent callers.  Threads share one cache object,   *)
(* hence one connection and one _write_lock; each runs one mutating method *)
(* at a time.  A statement executed on the connection opens (or joins) the *)
(* connection's transaction; commit() ends it for every thread.            *)
(***************************************************************************)
Threads == {"t1", "t2"}

\* the mutating methods of each cache
MutatingOps ==
    [meta |-> {"put", "put_batch", "cleanup_expired"},
     emb |-> {"put", "put_batch", "invalidate_model", "invalidate_source"}]

\* the methods whose statement and commit sit inside `with self._write_lock`
UnderWriteLock(cache, op) ==
    CASE cache = "meta" /\ op = "put" -> TRUE
      [] cache = "meta" /\ op = "put_batch" -> TRUE
      [] cache = "meta" /\ op = "cleanup_expired" -> FALSE
      [] cache = "emb" /\ op = "put" -> TRUE
      [] cache = "emb" /\ op = "put_batch" -> TRUE
      [] cache = "emb" /\ op = "invalidate_model" -> FALSE
      [] cache = "emb" /\ op = "invalidate_source" -> FALSE

\* the table after the statement of thread t's method
MetaStatement(table, op, t, at, off) ==
    CASE op = "put" ->
           MetaPutTable(table, <<"d", "a">>, IF t = "t1" THEN "abs1" ELSE "abs2",
                        "llm_scraper", 1, at, off)
      [] op = "put_batch" ->
           MetaPutBatchTable(table,
                             << << <<"D", "A">>, IF t = "t1" THEN "abs1" ELSE "abs2" >> >>,
                             "semantic_scholar", 1, at, off)
      [] op = "cleanup_expired" -> table \ MetaExpiredRows(table, at)

EmbStatement(table, op, t, at) ==
    CASE op = "put" ->
           EmbPutTable(table, "h1", IF t = "t1" THEN "e1" ELSE "e2", "m1",
                       "candidate", <<1>>, at)
      [] op = "put_batch" ->
           EmbPutBatchTable(table, << <<"h2", IF t = "t1" THEN "e1" ELSE "e2">> >>,
                            "m1", "profile", NULL, <<>>, at)
      [] op = "invalidate_model" -> {r \in table : r.model # "m1"}
      [] op = "invalidate_source" -> {r \in table : r.source_type # "candidate"}

\* a thread enters a mutating method
LockCall(t, op) ==
    /\ lpc[t] = "idle"
    /\ op \in MutatingOps[inst]
    /\ lop' = [lop EXCEPT ![t] = op]
    /\ lpc' = [lpc EXCEPT ![t] = IF UnderWriteLock(inst, op) THEN "acquire" ELSE "execute"]
    /\ UNCHANGED <<lock, pending, meta, emb>>
    /\ UNCHANGED notLockVars

\* with self._write_lock: __enter__
LockAcquire(t) ==
    /\ lpc[t] = "acquire"
    /\ lock = "free"
    /\ lock' = t
    /\ lpc' = [lpc EXCEPT ![t] = "execute"]
    /\ UNCHANGED <<lop, pending, meta, emb>>
    /\ UNCHANGED notLockVars

\* conn.execute / conn.executemany
LockExecute(t) ==
    /\ lpc[t] = "execute"
    /\ IF inst = "meta"
       THEN /\ meta' = MetaStatement(meta, lop[t], t, now, tz)
            /\ emb' = emb
       ELSE /\ emb' = EmbStatement(emb, lop[t], t, now)
            /\ meta' = meta
    /\ pending' = pending \cup {t}
    /\ lpc' = [lpc EXCEPT ![t] = "commit"]
    /\ UNCHANGED <<lock, lop>>
    /\ UNCHANGED notLockVars

\* conn.commit()
LockCommit(t) ==
    /\ lpc[t] = "commit"
    /\ pending' = {}
    /\ lpc' = [lpc EXCEPT ![t] = IF UnderWriteLock(inst, lop[t]) THEN "release" ELSE "idle"]
    /\ UNCHANGED <<lock, lop, meta, emb>>
    /\ UNCHANGED notLockVars

\* with self._write_lock: __exit__
LockRelease(t) ==
    /\ lpc[t] = "release"
    /\ lock' = "free"
    /\ lpc' = [lpc EXCEPT ![t] = "idle"]
    /\ UNCHANGED <<lop, pending, meta, emb>>
    /\ UNCHANGED notLockVars

LockInit ==
    /\ EnrichIdle
    /\ PoolIdle
    /\ ExtractIdle
    /\ HttpIdle
    /\ TitleIdle
    /\ BatchIdle
    /\ StealthIdle
    /\ now = StartTime
    /\ inst \in {"meta", "emb"}
    /\ tz = 0
    /\ meta \in IF inst = "meta" THEN EarlierCaches ELSE {{}}
    /\ emb = {}
    /\ res = NoCall
    /\ lock = "free"
    /\ lpc = [t \in Threads |-> "idle"]
    /\ lop = [t \in Threads |-> "none"]
    /\ pending = {}

LockNext ==
    \E t \in Threads :
        \/ \E op \in MutatingOps.meta \cup MutatingOps.emb : LockCall(t, op)
        \/ LockAcquire(t)
        \/ LockExecute(t)
        \/ LockCommit(t)
        \/ LockRelease(t)

SpecLock == LockInit /\ [][LockNext]_vars

(***************************************************************************)
(* BrowserPool.  HTML is a sequence of words; a marker is found in a page  *)
(* when its lower-cased words occur consecutively in the lower-cased page. *)
(* The browser is the environment: launching, opening a page and reading   *)
(* its content succeed or raise, and every read of page.content() may see  *)
(* a different document.                                                   *)
(***************************************************************************)
CLOUDFLARE_TITLE_INDICATORS ==
    { <<"Just", "a", "moment...">>, <<"Checking", "your", "browser">> }

CLOUDFLARE_BODY_INDICATORS ==
    { <<"Verify", "you", "are", "human">>,
      <<"Please", "wait", "while", "we", "verify", "your", "browser">>,
      <<"Enable", "JavaScript", "and", "cookies", "to", "continue">> }

\* str.lower on one word
LowerWord(w) ==
    CASE w = "Just" -> "just"
      [] w = "JUST" -> "just"
      [] w = "A" -> "a"
      [] w = "MOMENT..." -> "moment..."
      [] w = "Checking" -> "checking"
      [] w = "Verify" -> "verify"
      [] w = "Please" -> "please"
      [] w = "Enable" -> "enable"
      [] w = "JavaScript" -> "javascript"
      [] w = "Abstract" -> "abstract"
      [] OTHER -> w

LowerHtml(html) == [i \in DOMAIN html |-> LowerWord(html[i])]

\* needle in hay
Contains(hay, needle) ==
    \E k \in 0..(Len(hay) - Len(needle)) :
        \A j \in 1..Len(needle) : hay[k + j] = needle[j]

\* html = None
NoneHtml == <<"None">>

Falsy(html) == html = NoneHtml \/ html = <<>>

IsCloudflareChallenge(html) ==
    IF Falsy(html) THEN FALSE
    ELSE \/ \E indicator \in CLOUDFLARE_TITLE_INDICATORS :
                Contains(LowerHtml(html), LowerHtml(indicator))
         \/ \E indicator \in CLOUDFLARE_BODY_INDICATORS :
                Contains(LowerHtml(html), LowerHtml(indicator))

\* documents page.content() may return: the article, the interstitial with
\* its title in capitals, a page asking for verification, an empty document
HtmlPages ==
    { <<"<h2>", "Abstract", "</h2>", "we", "verify", "your", "claim">>,
      <<"<title>", "JUST", "A", "MOMENT...", "</title>">>,
      <<"<p>", "Verify", "you", "are", "human", "</p>">>,
      <<>> }

\* await page.content(): a document, or an exception
ContentOutcomes ==
    {[raises |-> TRUE, html |-> NoneHtml]}
        \cup {[raises |-> FALSE, html |-> h] : h \in HtmlPages}

Urls == {"u1", "u2"}
PageUrl == "page.url"

FetchResult(url, html, final_url, success, error) ==
    [url |-> url, html |-> html, final_url |-> final_url,
     success |-> success, error |-> error]

\* what gather holds for a task; nth tells how many tasks were done before
Pending == [kind |-> "pending"]
Returns(result) == [kind |-> "result", value |-> result]
Raises(msg) == [kind |-> "exception", msg |-> msg]
DoneBefore(g) == Cardinality({j \in DOMAIN g : g[j] # Pending})
Nth(outcome, n) == [f \in DOMAIN outcome \cup {"nth"} |->
                      IF f = "nth" THEN n ELSE outcome[f]]

\* html is the local variable of _fetch_single while the bypass runs on it
NewTask == [pc |-> "new", attempt |-> 0, html |-> NoneHtml, page |-> FALSE]

PoolConfigs ==
    [max_concurrent : {1, 2}, max_retries : {0, 1, 2}]

NoSemaphore == -1

SemaphoreFresh(s, max_concurrent) == max_concurrent

\* if self._semaphore is None: self._semaphore = asyncio.Semaphore(max_concurrent)
SemaphoreFor(s, max_concurrent) == IF s = NoSemaphore THEN max_concurrent ELSE s

GatherInCompletionOrder(g, i, outcome) ==
    LET k == CHOOSE j \in DOMAIN g :
                 g[j] = Pending /\ \A m \in DOMAIN g : g[m] = Pending => j <= m
    IN  [g EXCEPT ![k] = outcome]

\* asyncio.gather keeps a task's outcome at the task's position
GatherStore(g, i, outcome) == [g EXCEPT ![i] = outcome]

\* the number of fetches inside _fetch_single
InFlight ==
    Cardinality({i \in DOMAIN task :
                    task[i].pc \in {"launch", "loop", "nav", "solve", "recheck", "sleep"}})

\* _solve_cloudflare: solve_captcha succeeds, fails or raises; after a
\* success the page is read once more
SolveCloudflare(captcha, html) ==
    IF captcha = "solved" THEN ~IsCloudflareChallenge(html) ELSE FALSE

RecheckSkipped(html) == TRUE

\* if not _is_cloudflare_challenge(html) after the bypass
RecheckPasses(html) == ~IsCloudflareChallenge(html)

PageLeftOpen(page) == page

\* finally: if page: await page.close() (an exception of close is swallowed)
PageAfterFinally(page) == FALSE

\* the task ends without giving its slot back
TaskEndsKeepingSlot(i, outcome) ==
    /\ gathered' = GatherStore(gathered, i, Nth(outcome, DoneBefore(gathered)))
    /\ sem' = sem

\* the task of position i ends: gather gets its outcome, `async with`
\* releases the slot
TaskEnds(i, outcome) ==
    /\ gathered' = GatherStore(gathered, i, Nth(outcome, DoneBefore(gathered)))
    /\ sem' = sem + 1

\* the except branch of an attempt, then its finally
ExceptPath(i, msg) ==
    IF task[i].attempt < pcfg.max_retries - 1
    THEN /\ task' = [task EXCEPT ![i].pc = "sleep", ![i].html = NoneHtml]
         /\ UNCHANGED <<gathered, sem>>
    ELSE /\ task' = [task EXCEPT ![i].pc = "done", ![i].page = PageAfterFinally(task[i].page),
                                 ![i].html = NoneHtml]
         /\ TaskEnds(i, Returns(FetchResult(urls[i], NoneHtml, NULL, FALSE, msg)))

\* the challenge was not bypassed: sleep and retry, whatever the attempt
ChallengeRetriesAlways(i, html) ==
    /\ task' = [task EXCEPT ![i].pc = "sleep", ![i].html = NoneHtml]
    /\ UNCHANGED <<gathered, sem>>

\* the challenge was not bypassed: retry, or give the page back as a failure
ChallengePath(i, html) ==
    IF task[i].attempt < pcfg.max_retries - 1
    THEN /\ task' = [task EXCEPT ![i].pc = "sleep", ![i].html = NoneHtml]
         /\ UNCHANGED <<gathered, sem>>
    ELSE /\ task' = [task EXCEPT ![i].pc = "done", ![i].page = PageAfterFinally(task[i].page),
                                 ![i].html = NoneHtml]
         /\ TaskEnds(i, Returns(FetchResult(urls[i], html, PageUrl, FALSE,
                                            "Cloudflare bypass failed")))

SuccessPath(i, html) ==
    /\ task' = [task EXCEPT ![i].pc = "done", ![i].html = NoneHtml,
                            ![i].page = PageAfterFinally(task[i].page)]
    /\ TaskEnds(i, Returns(FetchResult(urls[i], html, PageUrl, TRUE, NULL)))

\* fetch_pages up to the await of gather
FetchPagesCall ==
    /\ fpc = "idle"
    /\ IF urls = <<>>
       THEN /\ fpc' = "returned"
            /\ UNCHANGED <<task, gathered>>
       ELSE /\ fpc' = "gathering"
            /\ task' = [i \in DOMAIN urls |-> NewTask]
            /\ gathered' = [i \in DOMAIN urls |-> Pending]
    /\ UNCHANGED <<pcfg, urls, final, sem, browser>>
    /\ UNCHANGED notPoolVars

\* _fetch_with_semaphore up to the jitter sleep
TaskStart(i) ==
    /\ i \in DOMAIN task
    /\ task[i].pc = "new"
    /\ SemaphoreFor(sem, pcfg.max_concurrent) > 0
    /\ sem' = SemaphoreFor(sem, pcfg.max_concurrent) - 1
    /\ task' = [task EXCEPT ![i].pc = "jitter"]
    /\ UNCHANGED <<pcfg, urls, fpc, gathered, final, browser>>
    /\ UNCHANGED notPoolVars

\* the jitter sleep ends; _fetch_single begins with _ensure_browser
TaskEnter(i) ==
    /\ i \in DOMAIN task
    /\ task[i].pc = "jitter"
    /\ task' = [task EXCEPT ![i].pc = IF browser.handle = 0 THEN "launch" ELSE "loop"]
    /\ UNCHANGED <<pcfg, urls, fpc, gathered, final, sem, browser>>
    /\ UNCHANGED notPoolVars

\* await AsyncCamoufox(...).__aenter__() returns or raises
TaskLaunched(i, ok) ==
    /\ i \in DOMAIN task
    /\ task[i].pc = "launch"
    /\ IF ok
       THEN /\ browser' = [handle |-> browser.launched + 1,
                           launched |-> browser.launched + 1]
            /\ task' = [task EXCEPT ![i].pc = "loop"]
            /\ UNCHANGED <<gathered, sem>>
       ELSE /\ task' = [task EXCEPT ![i].pc = "done"]
            /\ TaskEnds(i, Raises("launch failed"))
            /\ UNCHANGED browser
    /\ UNCHANGED <<pcfg, urls, fpc, final>>
    /\ UNCHANGED notPoolVars

\* the head of the retry loop: the loop is over, or new_page returns or raises
TaskNewPage(i, ok) ==
    /\ i \in DOMAIN task
    /\ task[i].pc = "loop"
    /\ IF task[i].attempt >= pcfg.max_retries
       THEN /\ task' = [task EXCEPT ![i].pc = "done"]
            /\ TaskEnds(i, Returns(FetchResult(urls[i], NoneHtml, NULL, FALSE,
                                               "Max retries exceeded")))
       ELSE IF ok
            THEN /\ task' = [task EXCEPT ![i].pc = "nav", ![i].page = TRUE]
                 /\ UNCHANGED <<gathered, sem>>
            ELSE ExceptPath(i, "new_page failed")
    /\ UNCHANGED <<pcfg, urls, fpc, final, browser>>
    /\ UNCHANGED notPoolVars

\* goto and wait_for_load_state (their exceptions are swallowed), then the
\* first page.content()
TaskNavigate(i, nav_ok, content) ==
    /\ i \in DOMAIN task
    /\ task[i].pc = "nav"
    /\ IF content.raises
       THEN ExceptPath(i, "content failed")
       ELSE IF IsCloudflareChallenge(content.html)
            THEN /\ task' = [task EXCEPT ![i].pc = "solve", ![i].html = content.html]
                 /\ UNCHANGED <<gathered, sem>>
            ELSE SuccessPath(i, content.html)
    /\ UNCHANGED <<pcfg, urls, fpc, final, browser>>
    /\ UNCHANGED notPoolVars

\* await self._solve_cloudflare(page)
TaskSolve(i, captcha, html) ==
    /\ i \in DOMAIN task
    /\ task[i].pc = "solve"
    /\ IF SolveCloudflare(captcha, html)
       THEN /\ task' = [task EXCEPT ![i].pc = "recheck", ![i].html = NoneHtml]
            /\ UNCHANGED <<gathered, sem>>
       ELSE ChallengePath(i, task[i].html)
    /\ UNCHANGED <<pcfg, urls, fpc, final, browser>>
    /\ UNCHANGED notPoolVars

\* sleep(2), then the second page.content()
TaskRecheck(i, content) ==
    /\ i \in DOMAIN task
    /\ task[i].pc = "recheck"
    /\ IF content.raises
       THEN ExceptPath(i, "content failed")
       ELSE IF RecheckPasses(content.html)
            THEN SuccessPath(i, content.html)
            ELSE ChallengePath(i, content.html)
    /\ UNCHANGED <<pcfg, urls, fpc, final, browser>>
    /\ UNCHANGED notPoolVars

\* the backoff sleep ends, finally closes the page, the loop goes on
TaskWake(i) ==
    /\ i \in DOMAIN task
    /\ task[i].pc = "sleep"
    /\ task' = [task EXCEPT ![i].pc = "loop", ![i].page = PageAfterFinally(task[i].page),
                            ![i].attempt = task[i].attempt + 1]
    /\ UNCHANGED <<pcfg, urls, fpc, gathered, final, sem, browser>>
    /\ UNCHANGED notPoolVars

GatherPropagates(g) ==
    IF \E i \in DOMAIN g : g[i].kind = "exception" THEN "raised" ELSE "returned"

\* asyncio.gather(*tasks, return_exceptions=True) never raises
GatherOutcome(g) == "returned"

\* the loop that turns exceptions into FetchResults
FinalResults(us, g) ==
    [i \in 1..Min(Len(us), Len(g)) |->
        IF g[i].kind = "exception"
        THEN FetchResult(us[i], NoneHtml, NULL, FALSE, g[i].msg)
        ELSE g[i].value]

\* gather is over: fetch_pages returns final_results
FetchPagesReturn ==
    /\ fpc = "gathering"
    /\ \A i \in DOMAIN gathered : gathered[i] # Pending
    /\ fpc' = GatherOutcome(gathered)
    /\ final' = IF GatherOutcome(gathered) = "returned"
                THEN FinalResults(urls, gathered) ELSE final
    /\ UNCHANGED <<pcfg, urls, task, gathered, sem, browser>>
    /\ UNCHANGED notPoolVars

PoolInit ==
    /\ EnrichIdle
    /\ LockIdle
    /\ ExtractIdle
    /\ HttpIdle
    /\ TitleIdle
    /\ BatchIdle
    /\ StealthIdle
    /\ now = StartTime
    /\ tz = 0
    /\ inst = "meta"
    /\ meta = {}
    /\ emb = {}
    /\ res = NoCall
    /\ pcfg \in PoolConfigs
    /\ urls \in SeqsUpTo(Urls, MaxUrls)
    /\ fpc = "idle"
    /\ task = <<>>
    /\ gathered = <<>>
    /\ final = <<>>
    /\ sem = NoSemaphore
    /\ browser = [handle |-> 0, launched |-> 0]

PoolNext ==
    \/ FetchPagesCall
    \/ \E i \in 1..MaxUrls :
        \/ TaskStart(i)
        \/ TaskEnter(i)
        \/ \E ok \in BOOLEAN : TaskLaunched(i, ok)
        \/ \E ok \in BOOLEAN : TaskNewPage(i, ok)
        \/ \E nav_ok \in BOOLEAN, content \in ContentOutcomes :
               TaskNavigate(i, nav_ok, content)
        \/ \E captcha \in {"solved", "failed", "raised"}, html \in HtmlPages :
               TaskSolve(i, captcha, html)
        \/ \E content \in ContentOutcomes : TaskRecheck(i, content)
        \/ TaskWake(i)
    \/ FetchPagesReturn

SpecPool == PoolInit /\ [][PoolNext]_vars

\* every browser operation and every sleep a task awaits ends, and the event
\* loop runs a task that can run
SpecPoolFair == PoolInit /\ [][PoolNext]_vars /\ WF_vars(PoolNext)

(***************************************************************************)
(* The extraction chain of AbstractScraper: rule-based extraction, then    *)
(* LLMAbstractExtractor.  Documents and abstracts are sequences of words;  *)
(* the model's replies are sequences of characters.                        *)
(***************************************************************************)
\* _extract_abstract returning None
NoAbstract == <<"None">>

\* title = None
NoTitle == <<"None">>

\* shortest snippet, in words, the rules accept as an abstract
RuleMinWords == 2

\* the marker of visibly truncated content
ShowMore == <<"Show More">>

\* the words of html after the first start tag and before the next end tag
Between(html, start, end) ==
    IF \E k \in DOMAIN html : html[k] = start
    THEN LET first == CHOOSE k \in DOMAIN html :
                          html[k] = start /\ \A j \in 1..(k - 1) : html[j] # start
             rest == SubSeq(html, first + 1, Len(html))
         IN  IF \E k \in DOMAIN rest : rest[k] = end
             THEN LET last == CHOOSE k \in DOMAIN rest :
                                  rest[k] = end /\ \A j \in 1..(k - 1) : rest[j] # end
                  IN  SubSeq(rest, 1, last - 1)
             ELSE <<>>
    ELSE <<>>

\* the candidate-rejection heuristics: long enough and not truncated
AcceptSnippet(snippet) ==
    Len(snippet) >= RuleMinWords /\ ~Contains(snippet, ShowMore)

\* the publisher tag of the host of url, by substring
detect_publisher(url) ==
    IF Contains(url, <<"acm">>) THEN "acm" ELSE "unknown"

\* the rule tiers: the publisher's rules, then the page-description meta field
extract_abstract(html, url) ==
    LET by_publisher == IF detect_publisher(url) = "unknown" THEN <<>>
                        ELSE Between(html, "<abstract>", "</abstract>")
        by_meta == Between(html, "<meta-description>", "</meta>")
    IN  IF AcceptSnippet(by_publisher) THEN by_publisher
        ELSE IF AcceptSnippet(by_meta) THEN by_meta
        ELSE NoAbstract

\* pages of publishers: an abstract the publisher's rules find, one only the
\* meta field holds, a truncated one, one that is too short beside other text
ExtractPages ==
    { <<"<abstract>", "we", "prove", "it", "</abstract>">>,
      <<"<meta-description>", "a", "survey", "</meta>">>,
      <<"<abstract>", "we", "prove", "Show More", "</abstract>">>,
      <<"<abstract>", "we", "</abstract>", "<p>", "text", "</p>">> }

\* final URLs: a known publisher's host and an unknown one
ExtractUrls == { <<"dl", "acm", "org">>, <<"example", "org">> }

Titles == { NoTitle, <<"A", "Title">> }

\* one word of a document stands for this many characters
CharsPerWord == 100

\* len(s) of a piece of a document, in characters
Chars(s) == Len(s) * CharsPerWord

\* LLMAbstractExtractor._extract_abstract_section: the meta description if
\* it is long enough, else a section marked as the abstract that is neither
\* truncated nor too short
ExtractAbstractSection(html) ==
    LET desc == Between(html, "<meta-description>", "</meta>")
        section == Between(html, "<abstract>", "</abstract>")
    IN  IF Chars(desc) > 200 THEN <<"Abstract from page metadata:">> \o desc
        ELSE IF /\ section # <<>>
                /\ ~Contains(LowerHtml(section), LowerHtml(ShowMore))
                /\ Chars(section) > 100
             THEN <<"Abstract section from page:">> \o section
        ELSE <<>>

\* LLMAbstractExtractor._preprocess_html: the targeted section, or the
\* document cut to max_html_chars
PreprocessHtml(html, max_html_chars) ==
    IF ExtractAbstractSection(html) # <<>> THEN ExtractAbstractSection(html)
    ELSE Take(html, max_html_chars \div CharsPerWord)

\* the prompt: EXTRACT_PROMPT around the cleaned document, after the title if
\* there is one
Prompt(cleaned_html, title) ==
    IF Falsy(title) THEN <<"EXTRACT_PROMPT">> \o cleaned_html
    ELSE <<"Paper title:">> \o title \o <<"EXTRACT_PROMPT">> \o cleaned_html

\* characters str.strip() removes
Whitespace == {" ", "\n", "\t"}

RECURSIVE LStrip(_)
LStrip(s) == IF s # <<>> /\ Head(s) \in Whitespace THEN LStrip(Tail(s)) ELSE s

RECURSIVE RStrip(_)
RStrip(s) ==
    IF s # <<>> /\ s[Len(s)] \in Whitespace THEN RStrip(SubSeq(s, 1, Len(s) - 1)) ELSE s

\* str.strip()
Strip(s) == RStrip(LStrip(s))

\* the sentinel the prompt asks for
NOT_FOUND == <<"N", "O", "T", "_", "F", "O", "U", "N", "D">>

\* replies shorter than this are not abstracts
MinAbstractLen == 50

\* response.content = None
NoContent == <<"None">>

\* n times the character c
Rep(c, n) == [k \in 1..n |-> c]

\* contents of the model's reply: around the length threshold, with blanks
\* around the text, the sentinel alone and inside a text, the sentinel in
\* lower case, nothing
LlmReplies ==
    { Rep("a", MinAbstractLen - 1),
      Rep("a", MinAbstractLen),
      <<" ">> \o Rep("a", MinAbstractLen) \o <<"\n">>,
      <<" ", " ">> \o Rep("a", MinAbstractLen - 2),
      NOT_FOUND,
      Rep("b", MinAbstractLen) \o NOT_FOUND \o <<".">>,
      Rep("c", MinAbstractLen) \o <<"n", "o", "t", "_", "f", "o", "u", "n", "d">>,
      <<>> }

\* self.llm.complete(...): raises, or returns a response whose content is a
\* string or None
LlmOutcomes ==
    {[raises |-> TRUE, content |-> NoContent]}
        \cup {[raises |-> FALSE, content |-> c] : c \in LlmReplies \cup {NoContent}}

\* the length test with <= in place of <
ReplyRejectedAtThreshold(result) ==
    Contains(result, NOT_FOUND) \/ Len(result) <= MinAbstractLen

\* "NOT_FOUND" in result or len(result) < 50
ReplyRejected(result) ==
    Contains(result, NOT_FOUND) \/ Len(result) < MinAbstractLen

\* logger.warning("LLM extraction failed: %s", e) is reached: complete raised,
\* or the response has no content to strip
LlmFailed(outcome) == outcome.raises \/ outcome.content = NoContent

\* an exception propagating to the caller
RaisedValue == <<"raise">>

\* an exception of complete leaving extract
LlmErrorEscapes(outcome) == RaisedValue

\* except Exception: return None
LlmErrorCaught(outcome) == NoAbstract

\* LLMAbstractExtractor.extract after the prompt is built: the value
\* returned
ExtractReply(outcome) ==
    IF LlmFailed(outcome) THEN LlmErrorCaught(outcome)
    ELSE IF ReplyRejected(Strip(outcome.content)) THEN NoAbstract
    ELSE Strip(outcome.content)

\* AbstractScraper(llm=..., use_llm_fallback=..., max_html_chars=...)
ExtractConfigs ==
    [llm : BOOLEAN, use_llm_fallback : BOOLEAN, max_html_chars : {300}]

\* a fetched page with the title of its DOI
FetchedPages == [html : ExtractPages, url : ExtractUrls, title : Titles]

\* self.llm_extractor is set: if llm and use_llm_fallback
LlmExtractorOf(cfg) == cfg.llm /\ cfg.use_llm_fallback

\* the fallback guarded by the provider alone
UsesLlmWheneverProvider(cfg) == cfg.llm

\* if self.llm_extractor and self.use_llm_fallback
UsesLlm(cfg) == LlmExtractorOf(cfg) /\ cfg.use_llm_fallback

\* the rules' result is not returned early
RulesNeverSuffice(abstract) == FALSE

\* if abstract: return abstract
RulesSuffice(abstract) == ~Falsy(abstract)

\* an entry of the log of extractor calls
ExtractCall(page, tier, prompt, result, warned) ==
    [page |-> page, tier |-> tier, prompt |-> prompt, result |-> result,
     warned |-> warned]

\* _extract_abstract up to the fallback: extract_abstract(html, url), then
\* return its abstract, go on to the fallback, or return None
ExtractRules(i) ==
    /\ xpc = "rules"
    /\ xi = i
    /\ i \in DOMAIN xpages
    /\ LET abstract == extract_abstract(xpages[i].html, xpages[i].url)
       IN  /\ xlog' = Append(xlog, ExtractCall(i, "rules", <<>>, abstract, FALSE))
           /\ IF RulesSuffice(abstract)
              THEN xres' = Append(xres, abstract) /\ xi' = i + 1 /\ xpc' = "rules"
              ELSE IF UsesLlm(xcfg)
              THEN xpc' = "llm" /\ UNCHANGED <<xres, xi>>
              ELSE xres' = Append(xres, NoAbstract) /\ xi' = i + 1 /\ xpc' = "rules"
    /\ UNCHANGED <<xcfg, xpages>>
    /\ UNCHANGED notExtractVars

\* self.llm_extractor.extract(html, title): one complete() call
ExtractLlm(i, outcome) ==
    /\ xpc = "llm"
    /\ xi = i
    /\ i \in DOMAIN xpages
    /\ LET prompt == Prompt(PreprocessHtml(xpages[i].html, xcfg.max_html_chars),
                            xpages[i].title)
           abstract == ExtractReply(outcome)
       IN  /\ xlog' = Append(xlog, ExtractCall(i, "llm", prompt, abstract,
                                               LlmFailed(outcome)))
           /\ IF abstract = RaisedValue
              THEN xpc' = "raised" /\ UNCHANGED <<xres, xi>>
              ELSE /\ xres' = Append(xres, IF Falsy(abstract) THEN NoAbstract ELSE abstract)
                   /\ xi' = i + 1
                   /\ xpc' = "rules"
    /\ UNCHANGED <<xcfg, xpages>>
    /\ UNCHANGED notExtractVars

\* the loop over the fetched pages is over
ExtractDone ==
    /\ xpc = "rules"
    /\ xi > Len(xpages)
    /\ xpc' = "returned"
    /\ UNCHANGED <<xcfg, xpages, xi, xres, xlog>>
    /\ UNCHANGED notExtractVars

\* no cache call
CacheIdle ==
    /\ now = StartTime
    /\ tz = 0
    /\ inst = "meta"
    /\ meta = {}
    /\ emb = {}
    /\ res = NoCall

ExtractInit ==
    /\ CacheIdle
    /\ EnrichIdle
    /\ LockIdle
    /\ PoolIdle
    /\ HttpIdle
    /\ TitleIdle
    /\ BatchIdle
    /\ StealthIdle
    /\ xcfg \in ExtractConfigs
    /\ xpages \in SeqsUpTo(FetchedPages, MaxPages)
    /\ xpc = "rules"
    /\ xi = 1
    /\ xres = <<>>
    /\ xlog = <<>>

ExtractNext ==
    \/ \E i \in 1..MaxPages : ExtractRules(i)
    \/ \E i \in 1..MaxPages, outcome \in LlmOutcomes : ExtractLlm(i, outcome)
    \/ ExtractDone

SpecExtract == ExtractInit /\ [][ExtractNext]_vars

(***************************************************************************)
(* The HTTP clients of the generative providers: one complete() call of    *)
(* BaseHTTPLLMClient or KimiClient under the with_retry decorator.  Model   *)
(* names are sequences of characters, temperatures are in tenths.          *)
(***************************************************************************)
\* model = None
NoModel == <<>>

\* "kimi-k2-thinking"
KimiK2Thinking ==
    <<"k", "i", "m", "i", "-", "k", "2", "-", "t", "h", "i", "n", "k", "i",
    "n", "g">>

\* "kimi-k2-thinking-turbo"
KimiK2ThinkingTurbo ==
    <<"k", "i", "m", "i", "-", "k", "2", "-", "t", "h", "i", "n", "k", "i",
    "n", "g", "-", "t", "u", "r", "b", "o">>

\* "kimi-k2-turbo-preview"
KimiK2TurboPreview ==
    <<"k", "i", "m", "i", "-", "k", "2", "-", "t", "u", "r", "b", "o", "-",
    "p", "r", "e", "v", "i", "e", "w">>

\* "kimi-k2"
KimiK2 ==
    <<"k", "i", "m", "i", "-", "k", "2">>

LlmModels == {KimiK2Thinking, KimiK2ThinkingTurbo, KimiK2TurboPreview, KimiK2}

THINKING_MODEL_PREFIXES == {KimiK2Thinking}
MIN_THINKING_TOKENS == 16000
\* temperature = 1.0
ThinkingTemperature == 10

\* the arguments of @with_retry(max_attempts=3, backoff_factor=2.0, initial_delay=1.0)
RetryMaxAttempts == 3
RetryBackoffFactor == 2
RetryInitialDelay == 1

\* model == prefix
EqualsPrefix(model, prefix) == model = prefix

\* model.startswith(prefix)
StartsWith(model, prefix) ==
    Len(model) >= Len(prefix) /\ \A k \in DOMAIN prefix : model[k] = prefix[k]

\* KimiClient._is_thinking_model
IsThinkingModel(model) ==
    \E prefix \in THINKING_MODEL_PREFIXES : StartsWith(model, prefix)

\* a request as posted: the fields of the JSON payload
Request(model, max_tokens, temperature) ==
    [model |-> model, max_tokens |-> max_tokens, temperature |-> temperature]

\* model or self.default_model
UseModel(model, default_model) == IF model = NoModel THEN default_model ELSE model

\* BaseHTTPLLMClient._adjust_parameters
AdjustParameters(model, max_tokens, temperature) ==
    Request(model, max_tokens, temperature)

\* KimiClient._complete_with_retry, lines 104-112
KimiAdjust(model, max_tokens, temperature) ==
    IF IsThinkingModel(model)
    THEN Request(model,
                 IF max_tokens < MIN_THINKING_TOKENS THEN MIN_THINKING_TOKENS
                 ELSE max_tokens,
                 ThinkingTemperature)
    ELSE Request(model, max_tokens, temperature)

\* the request one attempt posts
Posted(cfg, req) ==
    IF cfg.class = "kimi"
    THEN KimiAdjust(UseModel(req.model, cfg.default_model), req.max_tokens,
                    req.temperature)
    ELSE AdjustParameters(UseModel(req.model, cfg.default_model), req.max_tokens,
                          req.temperature)

RECURSIVE Power(_, _)
Power(b, n) == IF n = 0 THEN 1 ELSE b * Power(b, n - 1)

\* with_retry: the attempts a call may make
AttemptsAllowed(cfg) == RetryMaxAttempts

\* with_retry: the delay slept after the k-th failed attempt
BackoffDelay(cfg, k) == RetryInitialDelay * Power(RetryBackoffFactor, k - 1)

HttpConfigs ==
    [class : {"base", "kimi"}, default_model : {KimiK2ThinkingTurbo, KimiK2TurboPreview},
     max_retries : 1..MaxRetries, backoff_factor : {2, 3}]

HttpRequests ==
    [model : {NoModel, KimiK2Thinking, KimiK2},
     max_tokens : {1024, MIN_THINKING_TOKENS, 20000}, temperature : {1, 3, 10}]

\* one attempt: the request is posted; the round trip succeeds, or fails
\* (connection error, non-2xx status, unreadable body) and is retried after
\* the backoff delay unless it was the last attempt allowed
HttpAttempt(ok) ==
    /\ hpc = "attempt"
    /\ hsent' = Append(hsent, Posted(hcfg, hreq))
    /\ IF ok THEN hpc' = "returned" /\ UNCHANGED hsleeps
       ELSE IF Len(hsent') < AttemptsAllowed(hcfg)
       THEN /\ hpc' = "attempt"
            /\ hsleeps' = Append(hsleeps, BackoffDelay(hcfg, Len(hsent')))
       ELSE hpc' = "raised" /\ UNCHANGED hsleeps
    /\ UNCHANGED <<hcfg, hreq>>
    /\ UNCHANGED notHttpVars

HttpInit ==
    /\ CacheIdle
    /\ EnrichIdle
    /\ LockIdle
    /\ PoolIdle
    /\ ExtractIdle
    /\ TitleIdle
    /\ BatchIdle
    /\ StealthIdle
    /\ hcfg \in HttpConfigs
    /\ hreq \in HttpRequests
    /\ hpc = "attempt"
    /\ hsent = <<>>
    /\ hsleeps = <<>>

HttpNext == \E ok \in BOOLEAN : HttpAttempt(ok)

SpecHttp == HttpInit /\ [][HttpNext]_vars

(***************************************************************************)
(* The path of a candidate's title.  Two runs over the same DOI, cache,    *)
(* API answers, pages and model replies, which differ in the title only,   *)
(* advance together; each records the cache keys it reads and writes, the  *)
(* URLs it requests and the prompts it sends.  path "enrich" is            *)
(* AbstractEnricher.enrich, path "batch" is AbstractScraper.fetch_batch.   *)
(***************************************************************************)
Effect(kind, key) == [kind |-> kind, key |-> key]

\* the fetch resolved through a search for the title
SearchUrl(doi, title) ==
    IF Falsy(title) THEN <<"https://doi.org/">> \o doi
    ELSE <<"https://search.example/">> \o title

\* doi_url = f"https://doi.org/{doi}" of a fetch for (doi, title)
FetchUrl(doi, title) == <<"https://doi.org/">> \o doi

\* the key of the row cache.put(doi=doi, ..., title=title) writes
PutKey(doi, title) == Lower(doi)

\* the prompt of the fallback for a page, if the chain reaches the fallback
PromptEffects(cfg, html, url, title) ==
    IF ~RulesSuffice(extract_abstract(html, url)) /\ UsesLlm(cfg)
    THEN << Effect("prompt", Prompt(PreprocessHtml(html, cfg.max_html_chars), title)) >>
    ELSE <<>>

\* what _extract_abstract returns for a page
ChainResult(cfg, html, url, outcome) ==
    IF RulesSuffice(extract_abstract(html, url)) THEN extract_abstract(html, url)
    ELSE IF UsesLlm(cfg) /\ ~Falsy(ExtractReply(outcome)) THEN ExtractReply(outcome)
    ELSE NoAbstract

\* the scraper enrich and fetch_batch build: a provider, the fallback on
TitleScraperConfig ==
    [llm |-> TRUE, use_llm_fallback |-> TRUE, max_html_chars |-> 15000]

TitleInputs ==
    [path : {"enrich", "batch"}, doi : DOIs, titleA : Titles, titleB : Titles]

\* both runs take the step that title gives
BothAppend(effects(_)) ==
    /\ teffA' = teffA \o effects(tin.titleA)
    /\ teffB' = teffB \o effects(tin.titleB)

\* enrich, step 1: cache.get_batch over the DOIs that need enrichment
TitleLookup(hit) ==
    /\ tpc = "lookup"
    /\ BothAppend(LAMBDA title : << Effect("cache_read", Lower(tin.doi)) >>)
    /\ tpc' = IF hit THEN "done" ELSE "api"
    /\ UNCHANGED tin
    /\ UNCHANGED notTitleVars

\* enrich, step 2: the metadata API is asked for the DOI; an abstract it
\* returns is cached by put_batch
TitleApi(found) ==
    /\ tpc = "api"
    /\ BothAppend(LAMBDA title :
          << Effect("api", tin.doi) >>
              \o (IF found THEN << Effect("cache_write", Lower(tin.doi)) >> ELSE <<>>))
    /\ tpc' = IF found THEN "done" ELSE "scrape"
    /\ UNCHANGED tin
    /\ UNCHANGED notTitleVars

\* enrich, step 3: scraper.fetch_abstract(doi, title)
TitleScrape(outcome) ==
    /\ tpc = "scrape"
    /\ tpc' = IF outcome = "raise" THEN "raised" ELSE "fetch"
    /\ UNCHANGED <<tin, teffA, teffB>>
    /\ UNCHANGED notTitleVars

\* the page of https://doi.org/<doi> is requested and the chain extracts
\* from it; enrich caches an abstract that was found
TitleFetch(html, url, outcome) ==
    /\ tpc = "fetch"
    /\ BothAppend(LAMBDA title :
          << Effect("url", FetchUrl(tin.doi, title)) >>
              \o PromptEffects(TitleScraperConfig, html, url, title)
              \o (IF /\ tin.path = "enrich"
                     /\ ~Falsy(ChainResult(TitleScraperConfig, html, url, outcome))
                  THEN << Effect("cache_write", PutKey(tin.doi, title)) >>
                  ELSE <<>>))
    /\ tpc' = "done"
    /\ UNCHANGED tin
    /\ UNCHANGED notTitleVars

TitleInit ==
    /\ CacheIdle
    /\ EnrichIdle
    /\ LockIdle
    /\ PoolIdle
    /\ ExtractIdle
    /\ HttpIdle
    /\ BatchIdle
    /\ StealthIdle
    /\ tin \in TitleInputs
    /\ tpc = IF tin.path = "enrich" THEN "lookup" ELSE "fetch"
    /\ teffA = <<>>
    /\ teffB = <<>>

TitleNext ==
    \/ \E hit \in BOOLEAN : TitleLookup(hit)
    \/ \E found \in BOOLEAN : TitleApi(found)
    \/ \E outcome \in FetchAbstractOutcomes : TitleScrape(outcome)
    \/ \E html \in ExtractPages, url \in ExtractUrls, outcome \in LlmOutcomes :
          TitleFetch(html, url, outcome)

SpecTitle == TitleInit /\ [][TitleNext]_vars

(***************************************************************************)
(* MetadataCache.put_batch under interruption.  The connection is opened   *)
(* by sqlite3.connect(path) with the default isolation level: the sqlite3  *)
(* module begins a transaction before the first INSERT and only commit()   *)
(* ends it.  meta is what the connection reads (its own uncommitted        *)
(* statements included), disk what the database file holds for any         *)
(* connection opened later.                                                *)
(***************************************************************************)
\* the parameter tuples of executemany
BatchRows(items, source, ttl_days, t, off) ==
    [i \in DOMAIN items |->
        MetaRow(Lower(items[i][1]), items[i][2], source, MetaExpiresAt(t, off, ttl_days))]

\* a connection in autocommit mode: each statement is committed at once
AutocommitStatement(committed, view) == view

\* the committed rows after one statement of executemany: the statement
\* stays in the open transaction
DiskAfterStatement(committed, view) == committed

\* conn.commit()
DiskAfterCommit(committed, view) == view

\* what a connection opened after the process died reads: SQLite rolls the
\* unfinished transaction back
ReopenedView(committed, view) == committed

\* put_batch up to executemany: `if not items: return`, expires_at, the lock
BatchCall(items) ==
    /\ bpc = "idle"
    /\ bitems' = items
    /\ bpc' = IF items = <<>> THEN "returned" ELSE "executing"
    /\ bbefore' = disk
    /\ UNCHANGED <<bk, disk, meta, res>>
    /\ UNCHANGED notBatchVars

\* executemany executes its next parameter tuple
BatchExecuteOne ==
    /\ bpc = "executing"
    /\ bk < Len(bitems)
    /\ LET rows == BatchRows(bitems, "semantic_scholar", CacheTtlDays, now, tz)
           view == MetaInsertOrReplace(meta, rows[bk + 1])
       IN  /\ meta' = view
           /\ disk' = DiskAfterStatement(disk, view)
    /\ bk' = bk + 1
    /\ UNCHANGED <<bitems, bpc, bbefore, res>>
    /\ UNCHANGED notBatchVars

\* executemany is over: conn.commit(), the lock is released, put_batch returns
BatchCommit ==
    /\ bpc = "executing"
    /\ bk = Len(bitems)
    /\ disk' = DiskAfterCommit(disk, meta)
    /\ bpc' = "returned"
    /\ UNCHANGED <<bitems, bk, bbefore, meta, res>>
    /\ UNCHANGED notBatchVars

\* the process dies inside put_batch; the next process opens the file
BatchCrash ==
    /\ bpc = "executing"
    /\ bpc' = "crashed"
    /\ meta' = ReopenedView(disk, meta)
    /\ UNCHANGED <<bitems, bk, disk, bbefore, res>>
    /\ UNCHANGED notBatchVars

\* executemany raises at its next parameter tuple (a value sqlite3 cannot
\* bind): `with` releases the lock, the transaction stays open on the
\* connection the cache keeps
BatchRaise ==
    /\ bpc = "executing"
    /\ bk < Len(bitems)
    /\ bpc' = "raised"
    /\ UNCHANGED <<bitems, bk, disk, bbefore, meta, res>>
    /\ UNCHANGED notBatchVars

\* a get_batch after put_batch ended
BatchRead(dois) ==
    /\ bpc \in {"returned", "crashed", "raised", "after"}
    /\ res' = ReadCall("get_batch", dois, MetaGetBatch(meta, dois, now))
    /\ UNCHANGED <<batchVars, meta>>
    /\ UNCHANGED notBatchVars

\* a put after put_batch ended: its commit ends whatever transaction is open
BatchLaterPut(doi, abstract, source) ==
    /\ bpc \in {"returned", "crashed", "raised"}
    /\ meta' = MetaPutTable(meta, doi, abstract, source, CacheTtlDays, now, tz)
    /\ disk' = DiskAfterCommit(disk, meta')
    /\ bpc' = "after"
    /\ UNCHANGED <<bitems, bk, bbefore, res>>
    /\ UNCHANGED notBatchVars

BatchInit ==
    /\ EnrichIdle
    /\ LockIdle
    /\ PoolIdle
    /\ ExtractIdle
    /\ HttpIdle
    /\ TitleIdle
    /\ StealthIdle
    /\ now = StartTime
    /\ tz = 0
    /\ inst = "meta"
    /\ meta \in EarlierCaches
    /\ emb = {}
    /\ res = NoCall
    /\ bitems = <<>>
    /\ bpc = "idle"
    /\ bk = 0
    /\ disk = meta
    /\ bbefore = meta

BatchNext ==
    \/ \E items \in ListsUpTo(BatchItems, MaxBatch) : BatchCall(items)
    \/ BatchExecuteOne
    \/ BatchCommit
    \/ BatchCrash
    \/ BatchRaise
    \/ \E dois \in ListsUpTo(DOIs, 1) : BatchRead(dois)
    \/ \E a \in PutArgs : BatchLaterPut(a[1], a[2], a[3])

SpecBatch == BatchInit /\ [][BatchNext]_vars

(***************************************************************************)
(* AbstractScraper._fetch_batch_async: the pages of pool.fetch_pages that  *)
(* the extraction loop hands to _extract_abstract.                         *)
(***************************************************************************)
\* if not result.success or not result.html: continue
SkipsResult(result) == ~result.success \/ Falsy(result.html)

\* final_url = result.final_url or original_url
FinalUrlOf(result) == IF result.final_url = NULL THEN result.url ELSE result.final_url

\* the loop over results, up to the calls of _extract_abstract
ScraperHandsPages ==
    /\ fpc = "returned"
    /\ fpc' = "extracting"
    /\ LET usable == SelectSeq(final, LAMBDA r : ~SkipsResult(r))
       IN  xpages' = [j \in DOMAIN usable |->
                        [html |-> usable[j].html, url |-> FinalUrlOf(usable[j]),
                         title |-> NoTitle]]
    /\ UNCHANGED <<pcfg, urls, task, gathered, final, sem, browser>>
    /\ UNCHANGED notHandedVars

ScrapeBatchNext ==
    \/ PoolNext
    \/ ScraperHandsPages

SpecScrapeBatch == PoolInit /\ [][ScrapeBatchNext]_vars

(***************************************************************************)
(* StealthBrowser: class attributes shared by every caller, get_browser    *)
(* under _init_lock, fetch_page and close without it.  Browsers are        *)
(* numbered in launch order; 0 stands for None.                            *)
(***************************************************************************)
StealthOps == {"get_browser", "fetch_page", "close"}

\* a caller: its method, where it is, the browser get_browser gave it, and
\* the context it created ("none", "open" or "closed")
Caller(op, pc, b, ctx) == [op |-> op, pc |-> pc, b |-> b, ctx |-> ctx]

\* where a caller goes on when get_browser has returned b
AfterGetBrowser(op, b) ==
    IF op = "fetch_page" /\ b # 0 THEN "new_context" ELSE "idle"

\* an exception of context.new_page() passes the inner try/finally by: the
\* context stays as it is
ContextAfterNewPageError(ctx) == ctx

\* finally: context.close()
ContextAfterFinally(ctx) == "closed"

\* a method is called
StealthCall(t, op) ==
    /\ sthr[t].pc = "idle"
    /\ sthr' = [sthr EXCEPT ![t] = Caller(op, IF op = "close" THEN "close_browser" ELSE "lock",
                                          0, "none")]
    /\ UNCHANGED <<sinit, sbrowser, splay, slock, slive, snext>>
    /\ UNCHANGED notStealthVars

\* with cls._init_lock: if cls._initialized: return cls._browser;
\* otherwise cls._initialized = True and the launch begins
GetBrowserEnter(t) ==
    /\ sthr[t].pc = "lock"
    /\ slock = "free"
    /\ IF sinit
       THEN /\ sthr' = [sthr EXCEPT ![t].b = sbrowser,
                                    ![t].pc = AfterGetBrowser(sthr[t].op, sbrowser)]
            /\ UNCHANGED <<sinit, slock>>
       ELSE /\ sinit' = TRUE
            /\ slock' = t
            /\ sthr' = [sthr EXCEPT ![t].pc = "start"]
    /\ UNCHANGED <<sbrowser, splay, slive, snext>>
    /\ UNCHANGED notStealthVars

\* cls._playwright = sync_playwright().start(), or its exception
GetBrowserStart(t, ok) ==
    /\ sthr[t].pc = "start"
    /\ IF ok
       THEN /\ splay' = {}
            /\ sthr' = [sthr EXCEPT ![t].pc = "launch"]
            /\ UNCHANGED <<sbrowser, slock>>
       ELSE /\ sbrowser' = 0
            /\ slock' = "free"
            /\ sthr' = [sthr EXCEPT ![t].pc = "idle"]
            /\ UNCHANGED splay
    /\ UNCHANGED <<sinit, slive, snext>>
    /\ UNCHANGED notStealthVars

\* cls._browser = cls._playwright.firefox.launch(headless=True), or its
\* exception (also when close has unset _playwright meanwhile)
GetBrowserLaunch(t, ok) ==
    /\ sthr[t].pc = "launch"
    /\ ok => (splay # NoPlaywright /\ snext < MaxLaunches)
    /\ IF ok
       THEN /\ sbrowser' = snext + 1
            /\ splay' = splay \cup {snext + 1}
            /\ slive' = slive \cup {snext + 1}
            /\ snext' = snext + 1
            /\ sthr' = [sthr EXCEPT ![t].b = snext + 1,
                                    ![t].pc = AfterGetBrowser(sthr[t].op, snext + 1)]
       ELSE /\ sbrowser' = 0
            /\ sthr' = [sthr EXCEPT ![t].pc = "idle"]
            /\ UNCHANGED <<splay, slive, snext>>
    /\ slock' = "free"
    /\ UNCHANGED sinit
    /\ UNCHANGED notStealthVars

\* context = browser.new_context(...): raises when the browser is closed
FetchNewContext(t, ok) ==
    /\ sthr[t].pc = "new_context"
    /\ ok => sthr[t].b \in slive
    /\ sthr' = IF ok THEN [sthr EXCEPT ![t].ctx = "open", ![t].pc = "new_page"]
               ELSE [sthr EXCEPT ![t].pc = "idle"]
    /\ UNCHANGED <<sinit, sbrowser, splay, slock, slive, snext>>
    /\ UNCHANGED notStealthVars

\* page = context.new_page(), or its exception, caught by the outer except
FetchNewPage(t, ok) ==
    /\ sthr[t].pc = "new_page"
    /\ sthr' = IF ok THEN [sthr EXCEPT ![t].pc = "goto"]
               ELSE [sthr EXCEPT ![t].ctx = ContextAfterNewPageError(sthr[t].ctx),
                                 ![t].pc = "idle"]
    /\ UNCHANGED <<sinit, sbrowser, splay, slock, slive, snext>>
    /\ UNCHANGED notStealthVars

\* page.goto and page.content return or raise; finally closes the context
FetchGoto(t, ok) ==
    /\ sthr[t].pc = "goto"
    /\ sthr' = [sthr EXCEPT ![t].ctx = ContextAfterFinally(sthr[t].ctx), ![t].pc = "idle"]
    /\ UNCHANGED <<sinit, sbrowser, splay, slock, slive, snext>>
    /\ UNCHANGED notStealthVars

\* close: if cls._browser: cls._browser.close()
CloseBrowser(t) ==
    /\ sthr[t].pc = "close_browser"
    /\ IF sbrowser # 0
       THEN /\ slive' = slive \ {sbrowser}
            /\ sthr' = [sthr EXCEPT ![t].pc = "clear_browser"]
       ELSE /\ sthr' = [sthr EXCEPT ![t].pc = "close_playwright"]
            /\ UNCHANGED slive
    /\ UNCHANGED <<sinit, sbrowser, splay, slock, snext>>
    /\ UNCHANGED notStealthVars

\* close: cls._browser = None
CloseClearBrowser(t) ==
    /\ sthr[t].pc = "clear_browser"
    /\ sbrowser' = 0
    /\ sthr' = [sthr EXCEPT ![t].pc = "close_playwright"]
    /\ UNCHANGED <<sinit, splay, slock, slive, snext>>
    /\ UNCHANGED notStealthVars

\* the browsers left when a driver is stopped: those it launched end with it
LiveAfterStop(live, driver) == live \ driver

\* close: if cls._playwright: stop it; cls._playwright = None
ClosePlaywright(t) ==
    /\ sthr[t].pc = "close_playwright"
    /\ slive' = IF splay # NoPlaywright THEN LiveAfterStop(slive, splay) ELSE slive
    /\ splay' = NoPlaywright
    /\ sthr' = [sthr EXCEPT ![t].pc = "reset"]
    /\ UNCHANGED <<sinit, sbrowser, slock, snext>>
    /\ UNCHANGED notStealthVars

\* close: cls._initialized = False
CloseReset(t) ==
    /\ sthr[t].pc = "reset"
    /\ sinit' = FALSE
    /\ sthr' = [sthr EXCEPT ![t].pc = "idle"]
    /\ UNCHANGED <<sbrowser, splay, slock, slive, snext>>
    /\ UNCHANGED notStealthVars

StealthInit ==
    /\ CacheIdle
    /\ EnrichIdle
    /\ LockIdle
    /\ PoolIdle
    /\ ExtractIdle
    /\ HttpIdle
    /\ TitleIdle
    /\ BatchIdle
    /\ sinit = FALSE
    /\ sbrowser = 0
    /\ splay = NoPlaywright
    /\ slock = "free"
    /\ sthr = [t \in Threads |-> Caller("none", "idle", 0, "none")]
    /\ slive = {}
    /\ snext = 0

StealthNext ==
    \E t \in Threads :
        \/ \E op \in StealthOps : StealthCall(t, op)
        \/ GetBrowserEnter(t)
        \/ \E ok \in BOOLEAN : GetBrowserStart(t, ok)
        \/ \E ok \in BOOLEAN : GetBrowserLaunch(t, ok)
        \/ \E ok \in BOOLEAN : FetchNewContext(t, ok)
        \/ \E ok \in BOOLEAN : FetchNewPage(t, ok)
        \/ \E ok \in BOOLEAN : FetchGoto(t, ok)
        \/ CloseBrowser(t)
        \/ CloseClearBrowser(t)
        \/ ClosePlaywright(t)
        \/ CloseReset(t)

SpecStealth == StealthInit /\ [][StealthNext]_vars

(***************************************************************************)
(* Properties of the caches.                                               *)
(***************************************************************************)
\* the number a timestamp string denotes
StampValue(stamp) == stamp[1] * TicksPerDay + stamp[3]

\* the UTC instant at which a paper_metadata row's TTL has elapsed: the
\* local time put computed, put time + ttl_days, taken back to UTC
MetaExpiryInstant(r) == StampValue(r.expires) - tz

\* the UTC instant an embeddings row's expires_at denotes
EmbExpiryInstant(r) == StampValue(r.expires)

\* C2: MetadataCache.put followed by get_abstract returns the abstract put
\* while the TTL has not elapsed, and absent once the TTL has elapsed.
C2_RoundTrip ==
    [][\A doi \in DOIs :
          MetaGetAbstractCall(doi) =>
              \A r \in meta :
                  r.doi = Lower(doi) =>
                      IF now < MetaExpiryInstant(r)
                      THEN res'.val = r.abstract
                      ELSE res'.val = NULL]_vars

\* C3: in both caches the single read and the batch read return a stored
\* row if and only if its expires_at is null or later than the current time.
C3_VisibleIffUnexpired ==
    [][/\ \A doi \in DOIs :
            MetaGetAbstractCall(doi) =>
                \A r \in meta :
                    (r.doi = Lower(doi) /\ r.abstract # NULL) =>
                        (res'.val = r.abstract <=> now < MetaExpiryInstant(r))
       /\ \A dois \in ListsUpTo(DOIs, MaxBatch) :
            MetaGetBatchCall(dois) =>
                \A r \in meta :
                    (r.doi \in {Lower(d) : d \in Elems(dois)} /\ r.abstract # NULL) =>
                        (DoiMapGet(dois, r.doi) \in DOMAIN res'.val
                            <=> now < MetaExpiryInstant(r))
       /\ \A h \in ContentHashes, m \in Models :
            EmbGetCall(h, m) =>
                \A r \in emb :
                    EmbPK(r) = <<h, m>> =>
                        (res'.val = r.embedding
                            <=> (r.expires = NullStamp \/ now < EmbExpiryInstant(r)))
       /\ \A hs \in ListsUpTo(ContentHashes, MaxBatch), m \in Models :
            EmbGetBatchCall(hs, m) =>
                \A r \in emb :
                    (r.content_hash \in Elems(hs) /\ r.model = m) =>
                        (r.content_hash \in DOMAIN res'.val
                            <=> (r.expires = NullStamp \/ now < EmbExpiryInstant(r)))
      ]_vars

\* the last call was an upsert that replaced a row holding another value
IsOverwrite == /\ res.op \in {"put", "put_batch"}
               /\ "replaced" \in DOMAIN res
               /\ res.replaced # "no row"
               /\ res.replaced # res.value

\* C4: after two puts to one key with different values there is exactly one
\* row for the key; it carries the value, source tag and expiry of the
\* second put, and a read of the key returns the second value or nothing.
C4_LastWriterWins ==
    IsOverwrite =>
        IF inst = "meta"
        THEN LET k == Lower(res.key)
             IN  /\ {r \in meta : Lower(r.doi) = k}
                      = {MetaRow(k, res.value, res.source, res.expires)}
                 /\ \A d \in DOIs :
                      Lower(d) = k =>
                          /\ MetaGetAbstract(meta, d, now) \in {res.value, NULL}
                          /\ \A x \in DOMAIN MetaGetBatch(meta, <<d>>, now) :
                                MetaGetBatch(meta, <<d>>, now)[x] = res.value
        ELSE /\ {r \in emb : EmbPK(r) = res.key}
                  = {EmbRow(res.key[1], res.key[2], res.value, res.source, res.expires)}
             /\ EmbGet(emb, res.key[1], res.key[2], now) \in {res.value, NULL}
             /\ \A x \in DOMAIN EmbGetBatch(emb, <<res.key[1]>>, res.key[2], now) :
                    EmbGetBatch(emb, <<res.key[1]>>, res.key[2], now)[x] = res.value

\* C4 witness: a second put with another value and another source tag has
\* replaced a row, and the clock has moved on since
C4_Witness ==
    /\ IsOverwrite
    /\ inst = "meta"
    /\ res.op = "put"
    /\ res.value = "abs2"
    /\ res.replaced = "abs1"
    /\ MetaGetAbstract(meta, res.key, now) = "abs2"
    /\ now > StartTime

C6_MutationsUnderWriteLock ==
    /\ \A t \in DOMAIN lpc : lpc[t] = "commit" => lock = t
    /\ Cardinality(pending) <= 1

(***************************************************************************)
(* Properties of enrich.                                                   *)
(***************************************************************************)
\* the DOIs sent to the metadata API or to the scraper so far
Requested ==
    UNION {Elems(b) : b \in Elems(elog.api_calls)} \cup Elems(elog.fetches)

\* C1: enrich issues no metadata-API query and no page fetch for a
\* NeedsEnrichment candidate whose lower-cased DOI had an unexpired cache
\* row at the batch lookup.
C1_NoRefetchOfCached ==
    \A d \in Requested : Lower(d) \notin elog.hit_keys

(***************************************************************************)
(* Properties of the browser pool.                                         *)
(***************************************************************************)
\* C7: fetch_pages(urls) returns a list as long as urls whose i-th result
\* has url = urls[i], whatever the order in which the fetches complete,
\* also when some raise and when urls holds duplicates.
C7_OrderPreserved ==
    fpc = "returned" =>
        /\ Len(final) = Len(urls)
        /\ \A i \in DOMAIN urls : final[i].url = urls[i]

\* the second of two different URLs completed first, the first one raised
C7_Witness ==
    /\ fpc = "returned"
    /\ Len(urls) = 2
    /\ urls[1] # urls[2]
    /\ gathered[2].nth = 0
    /\ gathered[2].kind = "result"
    /\ gathered[1].kind = "exception"

\* C8: at every moment the number of fetches inside _fetch_single is at
\* most max_concurrent.
C8_InFlightBounded == InFlight <= pcfg.max_concurrent

\* every slot is taken by a fetch in flight while another fetch waits
C8_Witness ==
    /\ InFlight = pcfg.max_concurrent
    /\ \E i \in DOMAIN task : task[i].pc = "new"
    /\ \E i \in DOMAIN task : task[i].pc \in {"nav", "solve", "recheck"}

\* C9: when the task of one URL raises an exception, fetch_pages still
\* returns: that URL's result is FetchResult(success=False, html=None,
\* error=message) and every other URL's result is what its own task returned.
C9_RaisingTaskIsolated ==
    /\ fpc # "raised"
    /\ fpc = "returned" =>
          \A i \in DOMAIN gathered :
              IF gathered[i].kind = "exception"
              THEN final[i] = FetchResult(urls[i], NoneHtml, NULL, FALSE, gathered[i].msg)
              ELSE final[i] = gathered[i].value

\* one task raised and fetch_pages returned, with a success for the other URL
C9_Witness ==
    /\ fpc = "returned"
    /\ \E i \in DOMAIN gathered : gathered[i].kind = "exception"
    /\ \E j \in DOMAIN gathered :
          gathered[j].kind = "result" /\ final[j].success /\ ~Falsy(final[j].html)

SuccessResults ==
    {gathered[i].value : i \in {j \in DOMAIN gathered : gathered[j].kind = "result"
                                                         /\ gathered[j].value.success}}
        \cup {final[i] : i \in {j \in DOMAIN final : final[j].success}}

\* the attempt of task i goes to a retry or ends in a failure result
RetryOrFailure(i) ==
    \/ task'[i].pc = "sleep"
    \/ gathered'[i].kind = "result" /\ ~gathered'[i].value.success

\* C10: every FetchResult with success=True carries HTML in which the
\* case-insensitive marker scan finds no challenge marker, and a bypass after
\* which the page still shows a marker leads to a retry or a failure result,
\* never to a success.
C10_SuccessHasNoChallenge ==
    /\ [](\A r \in SuccessResults :
             r.html # NoneHtml /\ ~IsCloudflareChallenge(r.html))
    /\ [][\A i \in DOMAIN task :
             \* in contrapositive: a step that is neither a retry nor a failure
             \* is no recheck (no bypass) that saw a challenge page
             /\ (task[i].pc = "recheck" /\ ~RetryOrFailure(i)) =>
                   \A content \in ContentOutcomes :
                      (~content.raises /\ IsCloudflareChallenge(content.html))
                           => ~TaskRecheck(i, content)
             /\ (task[i].pc = "solve" /\ ~RetryOrFailure(i)) =>
                   \A html \in HtmlPages :
                      IsCloudflareChallenge(html) => ~TaskSolve(i, "solved", html)]_vars

\* one fetch succeeded with a document, another gave up on a challenge page
C10_Witness ==
    /\ \E r \in SuccessResults : ~Falsy(r.html)
    /\ \E i \in DOMAIN gathered :
          /\ gathered[i].kind = "result"
          /\ gathered[i].value.error = "Cloudflare bypass failed"
          /\ IsCloudflareChallenge(gathered[i].value.html)

\* C11: an attempt whose navigation failed (goto raised) never ends in a
\* success result: the URL is retried or the fetch ends in a failure.
C11_NavigationFailureNeverSuccess ==
    [][\A i \in 1..MaxUrls : \A content \in ContentOutcomes :
          TaskNavigate(i, FALSE, content) =>
              ~(gathered'[i].kind = "result" /\ gathered'[i].value.success)]_vars

\* C12: the page an attempt of _fetch_single opened is closed before the
\* next attempt opens one and before _fetch_single returns, on every exit
\* path; once fetch_pages has returned no page is open.
C12_PagesClosed ==
    /\ \A i \in DOMAIN task : task[i].pc \in {"loop", "done"} => ~task[i].page
    /\ fpc = "returned" => \A i \in DOMAIN task : ~task[i].page

\* fetch_pages returned after a fetch that went through a retry and one
\* that ended on a challenge page
C12_Witness ==
    /\ fpc = "returned"
    /\ \E i \in DOMAIN task : task[i].attempt >= 1 /\ gathered[i].kind = "result"
    /\ \E i \in DOMAIN task :
          gathered[i].kind = "result" /\ gathered[i].value.error = "Cloudflare bypass failed"
    /\ \A i \in DOMAIN task : ~task[i].page

\* C13: a BrowserPool launches at most one browser engine, also when
\* several fetches start on a pool whose browser does not exist yet.
C13_SingleBrowser == browser.launched <= 1

(***************************************************************************)
(* Properties of the enrich statistics and results.                        *)
(***************************************************************************)
\* C14: on every return path of enrich the stats satisfy
\* with_abstract + missing_abstracts + skipped_no_doi = total_candidates and
\* enriched <= missing_abstracts.
C14_StatsAddUp ==
    eout.how = "returned" =>
        /\ eout.stats.with_abstract + eout.stats.missing_abstracts
               + eout.stats.skipped_no_doi = eout.stats.total_candidates
        /\ eout.stats.enriched <= eout.stats.missing_abstracts

\* a full run over a candidate that got its abstract and one without DOI
C14_Witness ==
    /\ eout.how = "returned"
    /\ ecfg.enabled
    /\ eout.stats.total_candidates = 2
    /\ eout.stats.enriched = 1
    /\ eout.stats.skipped_no_doi = 1

\* the step on which enrich returns
EnrichReturns == EnrichReturn \/ (EnrichCall(FALSE) /\ eout'.how = "returned")

\* the list [C1 with abstract, C2 with cached DOI, C3 without DOI]
IsSpecExample(cs) ==
    /\ Len(cs) = 3
    /\ Truthy(cs[1].abstract)
    /\ ~Truthy(cs[2].abstract) /\ TruthyDoi(cs[2].doi) /\ Lower(cs[2].doi) \in elog.hit_keys
    /\ ~Truthy(cs[3].abstract) /\ ~TruthyDoi(cs[3].doi)

\* C15: enrich returns the same candidates in the same order, keeps the
\* abstract of a candidate that has one, leaves a candidate without DOI
\* without abstract, and gives a DOI-bearing candidate whose key has an
\* unexpired cache entry the cached value (every entry of earlier runs
\* holds "cached"); for the list of the example the stats are 3, 1, 1, 1,
\* cache_hits 1, enriched 1, failed 0.
C15_CandidatesAndCachedValue ==
    [][EnrichReturns =>
          /\ Len(cands') = Len(cands)
          /\ \A i \in DOMAIN cands :
                /\ cands'[i].doi = cands[i].doi
                /\ Truthy(cands[i].abstract) => cands'[i].abstract = cands[i].abstract
                /\ (~Truthy(cands[i].abstract) /\ ~TruthyDoi(cands[i].doi))
                      => cands'[i].abstract = cands[i].abstract
                /\ (ecfg.enabled /\ ~Truthy(cands[i].abstract) /\ TruthyDoi(cands[i].doi)
                        /\ Lower(cands[i].doi) \in elog'.hit_keys)
                      => cands'[i].abstract = "cached"
          /\ (ecfg.enabled /\ IsSpecExample(cands)) =>
                /\ eout'.stats.total_candidates = 3
                /\ eout'.stats.with_abstract = 1
                /\ eout'.stats.missing_abstracts = 1
                /\ eout'.stats.skipped_no_doi = 1
                /\ eout'.stats.cache_hits = 1
                /\ eout'.stats.enriched = 1
                /\ eout'.stats.failed = 0]_vars

\* the abstract of DOI d obtained in a tier is the value of d's cache row
StoredAs(table, d, abstract) ==
    \E r \in table : r.doi = Lower(d) /\ r.abstract = abstract

C17_NoRefetchAfterInterruption ==
    \A d \in elog.earlier : d \notin Requested

\* C18: with enrichment disabled enrich raises nothing, reads and writes no
\* cache, sends no request, returns every candidate unchanged and reports
\* cache_hits = 0, enriched = 0 and failed = 0.
C18_DisabledDoesNothing ==
    [][\A read_fails \in BOOLEAN :
          (EnrichCall(read_fails) /\ ~ecfg.enabled) =>
              /\ eout'.how = "returned"
              /\ epc' = "done"
              /\ meta' = meta
              /\ elog'.lookups = elog.lookups
              /\ elog'.api_calls = elog.api_calls
              /\ elog'.fetches = elog.fetches
              /\ cands' = cands
              /\ eout'.stats.cache_hits = 0
              /\ eout'.stats.enriched = 0
              /\ eout'.stats.failed = 0]_vars

\* a disabled enrich returned over a candidate whose DOI is in the cache
C18_Witness ==
    /\ ~ecfg.enabled
    /\ eout.how = "returned"
    /\ \E i \in DOMAIN cands :
          /\ ~Truthy(cands[i].abstract)
          /\ TruthyDoi(cands[i].doi)
          /\ \E r \in meta : r.doi = Lower(cands[i].doi) /\ NotExpired(r.expires, now)

\* C19: an exception raised while fetching or extracting one identifier in
\* the scraper tier does not fail the batch: enrich does not raise and goes
\* on to the remaining identifiers or to its return.
C19_FailureContained ==
    [][EnrichScrape("raise") => (eout'.how # "raised" /\ epc' # "done")]_vars

\* C20: a cache I/O error raised by get_batch or by put_batch during enrich
\* reaches the caller of enrich: the step on which it is raised ends the run
\* with the exception.
C20_CacheErrorPropagates ==
    [][/\ (EnrichCall(TRUE) /\ elog'.lookups # elog.lookups) => eout'.how = "raised"
       /\ \A found \in SUBSET DOIs :
             EnrichApiBatch(found, FALSE, TRUE) => eout'.how = "raised"]_vars

\* C30: invalidate_model(m) deletes exactly the rows whose model is m,
\* returns how many rows it deleted and leaves every other row as it was, and
\* count(model=m) is 0 right after it; invalidate_source(s) does the same for
\* the rows whose source type is s.
C30_InvalidateExactly ==
    [][/\ \A m \in Models :
             EmbInvalidateModel(m) =>
                 /\ \A r \in emb : (r \in emb') <=> (r.model # m)
                 /\ emb' \subseteq emb
                 /\ res'.val = Cardinality({r \in emb : r.model = m})
                 /\ EmbCountOf(emb', NULL, m) = 0
       /\ \A s \in SourceTypes :
             EmbInvalidateSource(s) =>
                 /\ \A r \in emb : (r \in emb') <=> (r.source_type # s)
                 /\ emb' \subseteq emb
                 /\ res'.val = Cardinality({r \in emb : r.source_type = s})
                 /\ EmbCountOf(emb', s, NULL) = 0]_vars

\* invalidate_model has deleted rows and rows of another model remain
C30_Witness ==
    /\ inst = "emb"
    /\ res.op = "invalidate_model"
    /\ res.val >= 1
    /\ \E r \in emb : r.model # res.arg

\* positions of xlog that are calls of tier for page i
CallsOf(i, tier) == {k \in DOMAIN xlog : xlog[k].page = i /\ xlog[k].tier = tier}

\* C21: for one page the rules run first and the generative extractor is
\* called at most once, only after the rules returned nothing and only with a
\* provider configured and the fallback enabled; it is never called for a page
\* whose rules produced an abstract.
C21_RulesFirstLlmOnce ==
    \A i \in DOMAIN xpages :
        /\ Cardinality(CallsOf(i, "llm")) <= 1
        /\ Cardinality(CallsOf(i, "rules")) <= 1
        /\ \A k \in CallsOf(i, "llm") :
              /\ xcfg.llm /\ xcfg.use_llm_fallback
              /\ \E j \in CallsOf(i, "rules") : j < k /\ Falsy(xlog[j].result)
        /\ \A j \in CallsOf(i, "rules") :
              ~Falsy(xlog[j].result) => CallsOf(i, "llm") = {}

\* a batch is done in which the rules sufficed for one page and the
\* generative extractor was called for another
C21_Witness ==
    /\ xpc = "returned"
    /\ \E i \in DOMAIN xpages : CallsOf(i, "llm") # {}
    /\ \E i \in DOMAIN xpages :
          \E j \in CallsOf(i, "rules") : ~Falsy(xlog[j].result)

\* C22: with the generative fallback disabled the chain never calls the
\* model, also when a provider was supplied; it returns absent whenever the
\* rules find nothing, and two pages with the same HTML and URL get the same
\* result.
C22_DisabledFallbackDeterministic ==
    ~xcfg.use_llm_fallback =>
        /\ \A k \in DOMAIN xlog : xlog[k].tier # "llm"
        /\ \A i \in DOMAIN xres :
              /\ \A k \in CallsOf(i, "rules") :
                    Falsy(xlog[k].result) => xres[i] = NoAbstract
              /\ \A j \in DOMAIN xres :
                    (xpages[i].html = xpages[j].html /\ xpages[i].url = xpages[j].url)
                        => xres[i] = xres[j]

\* a provider was supplied, the fallback is disabled, and the batch held the
\* same page twice under two titles, for which the rules found nothing
C22_Witness ==
    /\ xpc = "returned"
    /\ xcfg.llm
    /\ ~xcfg.use_llm_fallback
    /\ \E i, j \in DOMAIN xres :
          /\ i # j
          /\ xpages[i].html = xpages[j].html
          /\ xpages[i].url = xpages[j].url
          /\ xpages[i].title # xpages[j].title
          /\ xres[i] = NoAbstract

\* s without its leading and trailing whitespace
Trimmed(s) ==
    LET inked == {k \in DOMAIN s : s[k] \notin {" ", "\n", "\t"}}
    IN  IF inked = {} THEN <<>>
        ELSE SubSeq(s, CHOOSE k \in inked : \A j \in inked : k <= j,
                       CHOOSE k \in inked : \A j \in inked : k >= j)

\* C23: LLMAbstractExtractor.extract returns absent when the model's trimmed
\* reply contains NOT_FOUND or is shorter than 50 characters, and otherwise
\* returns exactly the trimmed reply.
C23_SentinelOrShortIsAbsent ==
    [][\A i \in 1..MaxPages : \A content \in LlmReplies :
          ExtractLlm(i, [raises |-> FALSE, content |-> content]) =>
              LET absent == \/ Contains(Trimmed(content), NOT_FOUND)
                            \/ Len(Trimmed(content)) < 50
              IN  /\ Len(xres') = i
                  /\ absent => xres'[i] = NoAbstract
                  /\ ~absent => xres'[i] = Trimmed(content)]_vars

\* the model was called for two pages: one reply of exactly 50 characters was
\* returned as the abstract, the other reply was taken as absent
C23_Witness ==
    /\ \E k \in DOMAIN xlog :
          xlog[k].tier = "llm" /\ xres[xlog[k].page] = Rep("a", 50)
    /\ \E k \in DOMAIN xlog :
          xlog[k].tier = "llm" /\ xlog[k].page \in DOMAIN xres
                               /\ xres[xlog[k].page] = NoAbstract

\* C24: an exception raised by the provider's complete call, or by a
\* malformed response, does not leave LLMAbstractExtractor.extract: extract
\* returns absent and the batch goes on with the next page.
C24_ProviderErrorContained ==
    [][\A i \in 1..MaxPages : \A outcome \in LlmOutcomes :
          (LlmFailed(outcome) /\ ExtractLlm(i, outcome)) =>
              /\ xpc' = "rules"
              /\ Len(xres') = i /\ xres'[i] = NoAbstract
              /\ xi' = i + 1]_vars

\* the provider failed for the first page and the chain still ran for the
\* second page before the batch returned
C24_Witness ==
    /\ xpc = "returned"
    /\ Len(xres) = 2
    /\ \E k \in CallsOf(1, "llm") : xlog[k].warned
    /\ CallsOf(2, "rules") # {}

\* C25: the extraction component raises a configuration error when the
\* generative fallback is requested without a provider, so that no batch is
\* extracted under that configuration, and it raises in no other case.
C25_ConfigurationError ==
    /\ (xcfg.use_llm_fallback /\ ~xcfg.llm) => xpc # "returned"
    /\ xpc = "raised" => (xcfg.use_llm_fallback /\ ~xcfg.llm)

\* C26: one complete() call makes at most the client's configured number of
\* HTTP round trips (max_retries of the constructor, retry.max_attempts
\* through from_config), fails to the caller only after that many attempts
\* have failed, and spaces the attempts by exponential backoff with the
\* configured backoff_factor.
C26_ConfiguredRetryPolicy ==
    /\ Len(hsent) <= hcfg.max_retries
    /\ hpc = "raised" => Len(hsent) = hcfg.max_retries
    /\ \A k \in DOMAIN hsleeps :
          hsleeps[k] = hsleeps[1] * Power(hcfg.backoff_factor, k - 1)

\* the name of the model a Kimi call asks for begins with kimi-k2-thinking
AsksThinkingModel ==
    LET name == IF hreq.model = NoModel THEN hcfg.default_model ELSE hreq.model
    IN  /\ Len(name) >= Len(KimiK2Thinking)
        /\ SubSeq(name, 1, Len(KimiK2Thinking)) = KimiK2Thinking

\* C27: every attempt of a Kimi complete() call, the first and each retry,
\* posts temperature 1.0 and max_tokens = max(requested, 16000) for a model
\* whose name starts with kimi-k2-thinking, and the requested temperature and
\* max_tokens for any other model; adjusting the posted request again changes
\* nothing.
C27_KimiAdjustment ==
    hcfg.class = "kimi" =>
        \A k \in DOMAIN hsent :
            /\ IF AsksThinkingModel
               THEN /\ hsent[k].temperature = 10
                    /\ hsent[k].max_tokens =
                          (IF hreq.max_tokens >= 16000 THEN hreq.max_tokens ELSE 16000)
               ELSE /\ hsent[k].temperature = hreq.temperature
                    /\ hsent[k].max_tokens = hreq.max_tokens
            /\ KimiAdjust(hsent[k].model, hsent[k].max_tokens, hsent[k].temperature)
                  = hsent[k]

\* a Kimi call for the default thinking model with a low temperature and few
\* tokens requested has made a retry
C27_Witness ==
    /\ hcfg.class = "kimi"
    /\ hreq.model = NoModel
    /\ hcfg.default_model = KimiK2ThinkingTurbo
    /\ hreq.max_tokens = 1024
    /\ hreq.temperature = 3
    /\ Len(hsent) >= 2

\* C28: two runs that differ only in the candidates' titles read and write
\* the same cache keys and request the same URLs, https://doi.org/ followed
\* by the DOI; only the prompts given to the generative extractor may differ.
C28_TitleOnlyInPrompt ==
    /\ Len(teffA) = Len(teffB)
    /\ \A k \in DOMAIN teffA :
          /\ k \in DOMAIN teffB
          /\ teffA[k].kind = teffB[k].kind
          /\ teffA[k].kind # "prompt" => teffA[k].key = teffB[k].key
          /\ teffA[k].kind = "url" => teffA[k].key = <<"https://doi.org/">> \o tin.doi

\* two runs with different titles are done: both requested the page of the
\* DOI and their prompts differ
C28_Witness ==
    /\ tpc = "done"
    /\ tin.titleA # tin.titleB
    /\ \E k \in DOMAIN teffA : teffA[k].kind = "url"
    /\ \E k \in DOMAIN teffA : teffA[k].kind = "prompt" /\ teffA[k].key # teffB[k].key

\* fetch_pages has returned one result per URL, at the URL's position, every
\* task is over and every semaphore slot is free
PoolTerminated ==
    /\ fpc = "returned"
    /\ Len(final) = Len(urls)
    /\ \A i \in DOMAIN urls : final[i].url = urls[i] /\ final[i].success \in BOOLEAN
    /\ \A i \in DOMAIN task : task[i].pc = "done"
    /\ sem \in {NoSemaphore, pcfg.max_concurrent}

\* C29: if every browser operation eventually returns or raises, fetch_pages
\* eventually returns for every URL list when max_concurrent >= 1: each URL
\* has exactly one terminal result, no fetch is left waiting for a slot, and
\* all semaphore slots are free again.
C29_FetchPagesTerminates == <>PoolTerminated

\* fetch_pages returned for two URLs that shared one slot, after a retry
C29_Witness ==
    /\ PoolTerminated
    /\ Len(urls) = 2
    /\ pcfg.max_concurrent = 1
    /\ sem = 1
    /\ \E i \in DOMAIN task : task[i].attempt >= 1

\* C31: a fetch that is only waiting out its jitter delay occupies none of
\* the max_concurrent slots: every slot taken belongs to a fetch that is
\* inside _fetch_single.
C31_JitterHoldsNoSlot ==
    sem # NoSemaphore => pcfg.max_concurrent - sem <= InFlight

\* the DOIs of the candidates that have no abstract and have a DOI, in order
MissingDois ==
    LET needs == SelectSeq(cands, LAMBDA c : ~Truthy(c.abstract) /\ TruthyDoi(c.doi))
    IN  [i \in DOMAIN needs |-> needs[i].doi]

\* C32: a run of enrich that gets past its early returns calls
\* cache.get_batch exactly once, with the DOIs of all candidates that need
\* enrichment; the call is over before the first request to the metadata
\* API or the first page fetch, and no cache read follows it.
C32_OneLookupBeforeNetwork ==
    /\ Len(elog.lookups) <= 1
    /\ (elog.api_calls # <<>> \/ elog.fetches # <<>>) => Len(elog.lookups) = 1
    /\ epc \in {"api", "scrape1", "scrape2", "apply"} => elog.lookups = <<MissingDois>>
    /\ (epc = "done" /\ eout.how = "returned" /\ ecfg.enabled
            /\ eout.stats.missing_abstracts > 0) => Len(elog.lookups) = 1

\* a run looked up two DOIs at once, then asked the metadata API, and returned
C32_Witness ==
    /\ epc = "done"
    /\ eout.how = "returned"
    /\ Len(elog.lookups) = 1
    /\ Len(elog.lookups[1]) = 2
    /\ elog.api_calls # <<>>

C34_BoundedAttempts ==
    /\ [](\A i \in DOMAIN task :
            /\ task[i].pc \in {"nav", "solve", "recheck", "sleep"}
                  => task[i].attempt < pcfg.max_retries
            /\ task[i].pc = "sleep" => task[i].attempt < pcfg.max_retries - 1
            /\ pcfg.max_retries = 0 =>
                  /\ ~task[i].page
                  /\ task[i].pc \in {"new", "jitter", "launch", "loop", "done"}
                  /\ task[i].pc = "done" =>
                        \/ gathered[i].kind = "exception"
                        \/ /\ gathered[i].kind = "result"
                           /\ ~gathered[i].value.success
                           /\ gathered[i].value.error = "Max retries exceeded")
    /\ [][\A i \in DOMAIN task :
            /\ task'[i].attempt # task[i].attempt =>
                  (task[i].pc = "sleep" /\ task'[i].attempt = task[i].attempt + 1)
            /\ (task[i].pc = "sleep" /\ task'[i].pc # "sleep") =>
                  (task'[i].pc = "loop" /\ task'[i].attempt = task[i].attempt + 1)
            /\ (task'[i].pc = "nav" /\ task[i].pc # "nav") => task[i].pc = "loop"
            /\ (task'[i].pc = "solve" /\ task[i].pc # "solve") => task[i].pc = "nav"
            /\ task[i].pc = "solve" => task'[i].pc \in {"solve", "recheck", "sleep", "done"}
            /\ task[i].pc = "recheck" => task'[i].pc \in {"recheck", "sleep", "done"}]_vars

\* a fetch made two attempts, met the challenge on the second as well and
\* ended there without a further sleep
C34_Witness ==
    \E i \in DOMAIN task :
        /\ pcfg.max_retries = 2
        /\ task[i].pc = "done"
        /\ task[i].attempt = 1
        /\ gathered[i].kind = "result"
        /\ gathered[i].value.error = "Cloudflare bypass failed"

\* C35: when the bypass still fails on the last attempt, the fetch result
\* carries the raw challenge page, and that page is handed to the
\* extraction chain.
C35_ChallengeHtmlReachesExtraction ==
    fpc = "extracting" =>
        \A i \in DOMAIN final :
            final[i].error = "Cloudflare bypass failed" =>
                /\ IsCloudflareChallenge(final[i].html)
                /\ \E j \in DOMAIN xpages : xpages[j].html = final[i].html

\* C36: get_abstract, get_batch and count leave every row of paper_metadata
\* as it is, and count counts expired rows too; cleanup_expired deletes
\* exactly the rows whose expiry is set and not later than now, returns
\* their number and leaves the other rows unchanged.
C36_OnlyCleanupDeletesExpired ==
    [][/\ res'.op \in {"get_abstract", "get_batch", "count"} => meta' = meta
       /\ \A source \in MetaSources \cup {NULL} :
             MetaCount(source) =>
                 res'.val = Cardinality({r \in meta : source = NULL \/ r.source = source})
       /\ MetaCleanupExpired =>
             LET gone == {r \in meta : /\ r.expires # NullStamp
                                       /\ MetaExpiryInstant(r) <= now}
             IN  /\ meta' = meta \ gone
                 /\ res'.val = Cardinality(gone)]_vars

\* C37: every browser context fetch_page created is closed when fetch_page
\* has returned, on every exit path, an exception of new_page or of the
\* navigation included.
C37_ContextClosedOnReturn ==
    \A t \in DOMAIN sthr :
        (sthr[t].op = "fetch_page" /\ sthr[t].pc = "idle") =>
            ~(sthr[t].ctx = "open" /\ sthr[t].b \in slive)

\* C38: whatever the interleaving of get_browser, fetch_page and close, at
\* most one launched browser is unreleased, and when no call is in progress
\* every unreleased browser is the one _browser refers to.
C38_OneBrowserAtMost ==
    /\ Cardinality(slive) <= 1
    /\ (\A t \in DOMAIN sthr : sthr[t].pc = "idle") => slive \subseteq {sbrowser}

\* C39: when enrich has gone through its tiers (it looked the cache up and
\* returned its statistics), enriched = cache_hits + api_fetched +
\* scraper_fetched and failed = missing_abstracts - enriched, candidates
\* sharing one DOI included.
C39_StatsAddUp ==
    (epc = "done" /\ eout.how = "returned" /\ elog.lookups # <<>>) =>
        /\ eout.stats.enriched = eout.stats.cache_hits + eout.stats.api_fetched
                                     + eout.stats.scraper_fetched
        /\ eout.stats.failed = eout.stats.missing_abstracts - eout.stats.enriched

\* how often x occurs in a list
Occurrences(list, x) == Cardinality({i \in DOMAIN list : list[i] = x})

====
